---------------------------- MODULE Spec2Model ----------------------------
(***************************************************************************)
(* Delivery decision engine: road graph (src/src/graph.py), package        *)
(* selector (src/src/package_selector.py), route optimizer                 *)
(* (src/src/route_optimizer.py), delivery controller (src/src/main.py),    *)
(* and the mock competition server (src/mock/mock_server.py).              *)
(*                                                                         *)
(* Numbers.  The program computes with floats.  Here every coordinate and  *)
(* every distance is an integer number of thousandths (1000 = 1.0), so the *)
(* tolerance 0.1 is 100.  math.sqrt is modelled by the integer square root *)
(* (rounded down to a thousandth).  The coordinates the inputs are drawn   *)
(* from are multiples of 20, for which "distance > 0.1" and "distance <    *)
(* min_dist" decide exactly as they do on the reals.                       *)
(* Python's None is <<>> where a tuple is expected and NoNode where a node *)
(* id is expected.                                                         *)
(***************************************************************************)
EXTENDS Integers, Sequences, FiniteSets, TLC

VARIABLES nodes, edges, call, packages, loaded, marks,
          controller,
          session, session_states, globally_delivered_packages, threads

vars == <<nodes, edges, call, packages, loaded, marks, controller,
          session, session_states, globally_delivered_packages, threads>>

graphVars == <<nodes, edges>>
catalogVars == <<packages, loaded, marks>>
serverVars == <<session, session_states, globally_delivered_packages, threads>>

\* no DeliveryController is constructed
NoController == [pc |-> "none"]

\* the mock server is not running: no client, no session state, nothing
\* delivered, no thread
NoServer ==
    /\ session = <<>>
    /\ session_states = <<>>
    /\ globally_delivered_packages = {}
    /\ threads = <<>>

None == <<>>
NoNode == 0 - 1

\* float('inf') and -float('inf'): beyond every distance and profit of the model
Inf == 2000000000
NegInf == 0 - Inf

\* the tolerance 0.1 of _find_or_add_node and find_path, in thousandths
Tol == 100

Abs(x) == IF x < 0 THEN 0 - x ELSE x

SetMin(S) == CHOOSE m \in S : \A o \in S : m <= o

RECURSIVE ISqrtBetween(_, _, _)
ISqrtBetween(n, lo, hi) ==
    IF lo >= hi THEN lo
    ELSE LET mid == (lo + hi + 1) \div 2
         IN  IF mid * mid <= n THEN ISqrtBetween(n, mid, hi)
                               ELSE ISqrtBetween(n, lo, mid - 1)

\* math.sqrt on a non-negative integer, rounded down
ISqrt(n) == ISqrtBetween(n, 0, IF n < 46340 THEN n ELSE 46340)

\* utils.euclidean_distance
euclidean_distance(point1, point2) ==
    ISqrt((point1[1] - point2[1]) * (point1[1] - point2[1])
          + (point1[2] - point2[2]) * (point1[2] - point2[2]))

(***************************************************************************)
(* Graph: nodes is the dict node_id -> (x, y), edges the dict node_id ->   *)
(* list of (neighbor_id, distance).  Node ids are 0 .. len(nodes)-1 and    *)
(* the dicts iterate in ascending id (insertion order).                    *)
(***************************************************************************)
EmptyGraph == [nodes |-> <<>>, edges |-> <<>>]

NodeIds(g) == DOMAIN g.nodes

\* Graph._find_or_add_node: the first node within the tolerance in both
\* axes, else a new node with the next id
find_or_add_node(g, point) ==
    LET near == {i \in NodeIds(g) :
                    /\ Abs(g.nodes[i][1] - point[1]) < Tol
                    /\ Abs(g.nodes[i][2] - point[2]) < Tol}
        new_id == Cardinality(NodeIds(g))
    IN  IF near # {}
        THEN [g |-> g, id |-> SetMin(near)]
        ELSE [g |-> [nodes |-> (new_id :> point) @@ g.nodes,
                     edges |-> (new_id :> <<>>) @@ g.edges],
              id |-> new_id]

\* the two appends of one street (graph.py:48-49), done one after the other
AddEdgesOneWay(es, start_id, end_id, distance) ==
    [es EXCEPT ![start_id] = Append(@, <<end_id, distance>>)]

AddEdges(es, start_id, end_id, distance) ==
    LET es1 == [es EXCEPT ![start_id] = Append(@, <<end_id, distance>>)]
    IN  [es1 EXCEPT ![end_id] = Append(@, <<start_id, distance>>)]

\* one iteration of the street loop (graph.py:37-49)
AddStreet(g, street) ==
    LET s == find_or_add_node(g, street.start)
        e == find_or_add_node(s.g, street.end)
        distance == euclidean_distance(street.start, street.end)
    IN  [nodes |-> e.g.nodes,
         edges |-> AddEdges(e.g.edges, s.id, e.id, distance)]

RECURSIVE AddStreets(_, _, _)
AddStreets(g, streets, i) ==
    IF i > Len(streets) THEN g
    ELSE AddStreets(AddStreet(g, streets[i]), streets, i + 1)

\* Graph.build_from_road_data on the graph object g: the entries of the
\* point list are (over)written, every other entry of the dicts is kept
build_from_road_data(g, road_data) ==
    LET pts == road_data.points
        ids == NodeIds(g) \cup {i - 1 : i \in 1..Len(pts)}
        g1 == [nodes |-> [i \in ids |-> IF i < Len(pts) THEN pts[i + 1]
                                                       ELSE g.nodes[i]],
               edges |-> [i \in ids |-> IF i < Len(pts) THEN <<>>
                                                       ELSE g.edges[i]]]
    IN  AddStreets(g1, road_data.streets, 1)

NearestBetterOrSame(dist, min_dist) == dist <= min_dist

\* graph.py:84
NearestBetter(dist, min_dist) == dist < min_dist

\* the loop of find_nearest_node (graph.py:82-86) from node i on; the dict
\* iterates the ids 0 .. len(nodes)-1 in ascending order
RECURSIVE NearestScan(_, _, _, _, _)
NearestScan(g, point, i, min_dist, nearest_id) ==
    IF i \notin NodeIds(g) THEN nearest_id
    ELSE LET dist == euclidean_distance(point, g.nodes[i])
         IN  IF NearestBetter(dist, min_dist)
             THEN NearestScan(g, point, i + 1, dist, i)
             ELSE NearestScan(g, point, i + 1, min_dist, nearest_id)

\* Graph.find_nearest_node: a node id, or NoNode (None) without nodes
find_nearest_node(g, point) ==
    IF NodeIds(g) = {} THEN NoNode
    ELSE NearestScan(g, point, 0, Inf, NoNode)

\* heapq.heappop on a heap of (priority, node_id) tuples: the least tuple
HeapMin(heap) ==
    CHOOSE e \in heap : \A o \in heap :
        e[1] < o[1] \/ (e[1] = o[1] /\ e[2] <= o[2])

\* the path reconstruction loop of astar and dijkstra (graph.py:126-132),
\* came_from[n] = NoNode standing for "n not in came_from"
RECURSIVE PathBack(_, _, _)
PathBack(came_from, node, acc) ==
    IF came_from[node] # NoNode
    THEN PathBack(came_from, came_from[node], <<node>> \o acc)
    ELSE acc

ReconstructPath(came_from, start_id, goal_id) ==
    <<start_id>> \o PathBack(came_from, goal_id, <<>>)

(***************************************************************************)
(* The state of a search: open (the heap, as the set of its entries: an    *)
(* entry pushed twice pops twice, and the second pop is skipped as         *)
(* closed), came_from, g_score (NoNode / Inf standing for an absent key)   *)
(* and closed.                                                             *)
(***************************************************************************)
\* the body of astar's neighbor loop for one edge (graph.py:137-148)
AstarRelaxNoInsert(g, goal_id, st, current, edge) ==
    LET neighbor == edge[1]
        tentative_g == st.g_score[current] + edge[2]
    IN  IF neighbor \in st.closed THEN st
        ELSE IF st.g_score[neighbor] # Inf /\ tentative_g < st.g_score[neighbor]
        THEN [st EXCEPT
                !.came_from[neighbor] = current,
                !.g_score[neighbor] = tentative_g,
                !.open = @ \cup {<<tentative_g
                    + euclidean_distance(g.nodes[neighbor], g.nodes[goal_id]),
                    neighbor>>}]
        ELSE st

AstarRelax(g, goal_id, st, current, edge) ==
    LET neighbor == edge[1]
        tentative_g == st.g_score[current] + edge[2]
    IN  IF neighbor \in st.closed THEN st
        ELSE IF st.g_score[neighbor] = Inf \/ tentative_g < st.g_score[neighbor]
        THEN [st EXCEPT
                !.came_from[neighbor] = current,
                !.g_score[neighbor] = tentative_g,
                !.open = @ \cup {<<tentative_g
                    + euclidean_distance(g.nodes[neighbor], g.nodes[goal_id]),
                    neighbor>>}]
        ELSE st

RECURSIVE AstarNeighbors(_, _, _, _, _)
AstarNeighbors(g, goal_id, st, current, i) ==
    IF i > Len(g.edges[current]) THEN st
    ELSE AstarNeighbors(g, goal_id,
             AstarRelax(g, goal_id, st, current, g.edges[current][i]),
             current, i + 1)

\* the while loop of astar (graph.py:118-150)
RECURSIVE AstarLoop(_, _, _, _)
AstarLoop(g, start_id, goal_id, st) ==
    IF st.open = {} THEN None
    ELSE LET top == HeapMin(st.open)
             current == top[2]
             popped == [st EXCEPT !.open = @ \ {top}]
         IN  IF current \in st.closed
             THEN AstarLoop(g, start_id, goal_id, popped)
             ELSE IF current = goal_id
             THEN <<ReconstructPath(st.came_from, start_id, goal_id),
                    st.g_score[goal_id]>>
             ELSE AstarLoop(g, start_id, goal_id,
                      AstarNeighbors(g, goal_id,
                          [popped EXCEPT !.closed = @ \cup {current}],
                          current, 1))

SearchStart(g, start_id) ==
    [open |-> {<<0, start_id>>},
     came_from |-> [n \in NodeIds(g) |-> NoNode],
     g_score |-> [n \in NodeIds(g) |-> IF n = start_id THEN 0 ELSE Inf],
     closed |-> {}]

\* Graph.astar: None, or <<path, distance>>
astar(g, start_id, goal_id) ==
    IF start_id \notin NodeIds(g) \/ goal_id \notin NodeIds(g) THEN None
    ELSE IF start_id = goal_id THEN <<<<start_id>>, 0>>
    ELSE AstarLoop(g, start_id, goal_id, SearchStart(g, start_id))

\* the body of dijkstra's neighbor loop for one edge (graph.py:194-203)
DijkstraRelax(st, current, edge) ==
    LET neighbor == edge[1]
        new_dist == st.g_score[current] + edge[2]
    IN  IF neighbor \in st.closed THEN st
        ELSE IF st.g_score[neighbor] = Inf \/ new_dist < st.g_score[neighbor]
        THEN [st EXCEPT
                !.g_score[neighbor] = new_dist,
                !.came_from[neighbor] = current,
                !.open = @ \cup {<<new_dist, neighbor>>}]
        ELSE st

RECURSIVE DijkstraNeighbors(_, _, _, _)
DijkstraNeighbors(g, st, current, i) ==
    IF i > Len(g.edges[current]) THEN st
    ELSE DijkstraNeighbors(g,
             DijkstraRelax(st, current, g.edges[current][i]), current, i + 1)

\* the while loop of dijkstra (graph.py:175-205); g_score is "distances",
\* closed is "visited", open is "pq"
RECURSIVE DijkstraLoop(_, _, _, _)
DijkstraLoop(g, start_id, goal_id, st) ==
    IF st.open = {} THEN None
    ELSE LET top == HeapMin(st.open)
             current == top[2]
             popped == [st EXCEPT !.open = @ \ {top}]
         IN  IF current \in st.closed
             THEN DijkstraLoop(g, start_id, goal_id, popped)
             ELSE IF current = goal_id
             THEN <<ReconstructPath(st.came_from, start_id, goal_id),
                    st.g_score[goal_id]>>
             ELSE DijkstraLoop(g, start_id, goal_id,
                      DijkstraNeighbors(g,
                          [popped EXCEPT !.closed = @ \cup {current}],
                          current, 1))

\* Graph.dijkstra: None, or <<path, distance>>
dijkstra(g, start_id, goal_id) ==
    IF start_id \notin NodeIds(g) \/ goal_id \notin NodeIds(g) THEN None
    ELSE IF start_id = goal_id THEN <<<<start_id>>, 0>>
    ELSE DijkstraLoop(g, start_id, goal_id, SearchStart(g, start_id))

\* the endpoint splicing of find_path (graph.py:238-249) on a found path
SplicedAlways(g, start_pos, goal_pos, result) ==
    LET coords == [k \in 1..Len(result[1]) |-> g.nodes[result[1][k]]]
        s == [path |-> <<start_pos>> \o coords,
              distance |-> result[2] + euclidean_distance(start_pos, coords[1])]
        last == s.path[Len(s.path)]
    IN  <<Append(s.path, goal_pos),
          s.distance + euclidean_distance(last, goal_pos)>>

Spliced(g, start_pos, goal_pos, result) ==
    LET coords == [k \in 1..Len(result[1]) |-> g.nodes[result[1][k]]]
        s == IF euclidean_distance(start_pos, coords[1]) > Tol
             THEN [path |-> <<start_pos>> \o coords,
                   distance |-> result[2]
                                + euclidean_distance(start_pos, coords[1])]
             ELSE [path |-> coords, distance |-> result[2]]
        last == s.path[Len(s.path)]
    IN  IF euclidean_distance(goal_pos, last) > Tol
        THEN <<Append(s.path, goal_pos),
               s.distance + euclidean_distance(last, goal_pos)>>
        ELSE <<s.path, s.distance>>

\* Graph.find_path: None, or <<list of points, distance>>
find_path(g, start_pos, goal_pos, use_astar) ==
    LET start_id == find_nearest_node(g, start_pos)
        goal_id == find_nearest_node(g, goal_pos)
    IN  IF start_id = NoNode \/ goal_id = NoNode THEN None
        ELSE LET result == IF use_astar THEN astar(g, start_id, goal_id)
                                        ELSE dijkstra(g, start_id, goal_id)
             IN  IF result = None THEN None
                 ELSE Spliced(g, start_pos, goal_pos, result)

(***************************************************************************)
(* Package catalog and selector.  The catalog self.packages is the list of *)
(* its Package records in the dict's insertion order.  A profit is a       *)
(* number of ten-thousandths: the weights are tenths (1.0 is 10, 0.1 is 1) *)
(* and rewards and distances are thousandths.                              *)
(***************************************************************************)
NoPackage == 0 - 1
NoReward == 0 - 1

\* config.REWARD_WEIGHT (1.0) and config.DISTANCE_WEIGHT (0.1), in tenths
REWARD_WEIGHT == 10
DISTANCE_WEIGHT == 1

\* config.MAX_PACKAGES_PER_TRIP
MAX_PACKAGES_PER_TRIP == 3

\* the reward of a package whose snapshot names none (100.0)
DefaultReward == 100000

Ids(pkgs) == {pkgs[k].id : k \in 1..Len(pkgs)}

PackageOf(pkgs, id) == pkgs[CHOOSE k \in 1..Len(pkgs) : pkgs[k].id = id]

\* Package.__init__ on one entry of the snapshot, as load_packages calls it;
\* an entry without 'dropoff' has dropoff None, one without 'reward' has
\* reward NoReward
LoadedPackageDropoffAtPickup(entry) ==
    [id |-> entry.id,
     pickup_pos |-> entry.position,
     dropoff_pos |-> IF entry.dropoff = None THEN entry.position ELSE entry.dropoff,
     reward |-> IF entry.reward = NoReward THEN DefaultReward ELSE entry.reward,
     delivered |-> FALSE]

LoadedPackage(entry) ==
    [id |-> entry.id,
     pickup_pos |-> entry.position,
     dropoff_pos |-> entry.dropoff,
     reward |-> IF entry.reward = NoReward THEN DefaultReward ELSE entry.reward,
     delivered |-> FALSE]

\* PackageSelector.load_packages: a new catalog, one Package per entry
load_packages(packages_data) ==
    [k \in 1..Len(packages_data) |-> LoadedPackage(packages_data[k])]

\* PackageSelector.update_package_dropoff
update_package_dropoff(pkgs, package_id, dropoff_pos) ==
    [k \in 1..Len(pkgs) |->
        IF pkgs[k].id = package_id
        THEN [pkgs[k] EXCEPT !.dropoff_pos = dropoff_pos]
        ELSE pkgs[k]]

\* PackageSelector.mark_delivered
mark_delivered_toggle(pkgs, package_id) ==
    [k \in 1..Len(pkgs) |->
        IF pkgs[k].id = package_id
        THEN [pkgs[k] EXCEPT !.delivered = ~@]
        ELSE pkgs[k]]

mark_delivered(pkgs, package_id) ==
    [k \in 1..Len(pkgs) |->
        IF pkgs[k].id = package_id
        THEN [pkgs[k] EXCEPT !.delivered = TRUE]
        ELSE pkgs[k]]

\* PackageSelector.get_undelivered_count, over the packages from index k on
RECURSIVE UndeliveredFrom(_, _)
UndeliveredFrom(pkgs, k) ==
    IF k > Len(pkgs) THEN 0
    ELSE (IF pkgs[k].delivered THEN 0 ELSE 1) + UndeliveredFrom(pkgs, k + 1)

get_undelivered_count(pkgs) == UndeliveredFrom(pkgs, 1)

\* PackageSelector.get_total_reward_earned, over the packages from index k on
RECURSIVE RewardEarnedFrom(_, _)
RewardEarnedFrom(pkgs, k) ==
    IF k > Len(pkgs) THEN 0
    ELSE (IF pkgs[k].delivered THEN pkgs[k].reward ELSE 0)
         + RewardEarnedFrom(pkgs, k + 1)

get_total_reward_earned(pkgs) == RewardEarnedFrom(pkgs, 1)

\* "package.delivered or package.dropoff_pos is None", the test that
\* calculate_package_profit and every select operation make
Ineligible(package) == package.delivered \/ package.dropoff_pos = None

\* calculate_package_profit without the leg from the current position to
\* the pickup
calculate_package_profit_delivery_leg(g, package, current_pos) ==
    IF Ineligible(package) THEN NegInf
    ELSE LET result2 == find_path(g, package.pickup_pos, package.dropoff_pos, TRUE)
             total_distance ==
                 IF result2 = None
                 THEN euclidean_distance(package.pickup_pos, package.dropoff_pos)
                 ELSE result2[2]
         IN  package.reward * REWARD_WEIGHT - total_distance * DISTANCE_WEIGHT

\* PackageSelector.calculate_package_profit
calculate_package_profit(g, package, current_pos) ==
    IF Ineligible(package) THEN NegInf
    ELSE LET result1 == find_path(g, current_pos, package.pickup_pos, TRUE)
             result2 == find_path(g, package.pickup_pos, package.dropoff_pos, TRUE)
             total_distance ==
                 IF result1 = None \/ result2 = None
                 THEN euclidean_distance(current_pos, package.pickup_pos)
                      + euclidean_distance(package.pickup_pos, package.dropoff_pos)
                 ELSE result1[2] + result2[2]
         IN  package.reward * REWARD_WEIGHT - total_distance * DISTANCE_WEIGHT

\* the loop of select_best_package (package_selector.py:132-140)
RECURSIVE BestScan(_, _, _, _, _, _)
BestScan(g, pkgs, current_pos, k, best_package, best_profit) ==
    IF k > Len(pkgs) THEN best_package
    ELSE IF Ineligible(pkgs[k])
    THEN BestScan(g, pkgs, current_pos, k + 1, best_package, best_profit)
    ELSE LET profit == calculate_package_profit(g, pkgs[k], current_pos)
         IN  IF profit > best_profit
             THEN BestScan(g, pkgs, current_pos, k + 1, pkgs[k].id, profit)
             ELSE BestScan(g, pkgs, current_pos, k + 1, best_package, best_profit)

\* PackageSelector.select_best_package: a package id, or NoPackage
select_best_package(g, pkgs, current_pos) ==
    BestScan(g, pkgs, current_pos, 1, NoPackage, NegInf)

\* "profit > best_profit and profit > 0" (package_selector.py:176)
GreedyBetterOrZero(profit, best_profit) == profit > best_profit /\ profit >= 0

GreedyBetter(profit, best_profit) == profit > best_profit /\ profit > 0

\* "package.delivered or package in selected or package.dropoff_pos is None"
\* (package_selector.py:171)
GreedySkipsUnselected(package, selected) == Ineligible(package)

GreedySkips(package, selected) ==
    Ineligible(package) \/ \E i \in 1..Len(selected) : selected[i] = package.id

\* the inner loop of select_packages_greedy (package_selector.py:170-178)
RECURSIVE GreedyScan(_, _, _, _, _, _, _)
GreedyScan(g, pkgs, selected, temp_pos, k, best_pkg, best_profit) ==
    IF k > Len(pkgs) THEN best_pkg
    ELSE IF GreedySkips(pkgs[k], selected)
    THEN GreedyScan(g, pkgs, selected, temp_pos, k + 1, best_pkg, best_profit)
    ELSE LET profit == calculate_package_profit(g, pkgs[k], temp_pos)
         IN  IF GreedyBetter(profit, best_profit)
             THEN GreedyScan(g, pkgs, selected, temp_pos, k + 1, pkgs[k].id, profit)
             ELSE GreedyScan(g, pkgs, selected, temp_pos, k + 1, best_pkg, best_profit)

\* the position the next pick is scored from (package_selector.py:185)
GreedyNextPos(temp_pos, best_pkg) == best_pkg.dropoff_pos

\* the outer loop of select_packages_greedy (package_selector.py:166-185)
RECURSIVE GreedyLoop(_, _, _, _, _)
GreedyLoop(g, pkgs, selected, temp_pos, rounds) ==
    IF rounds <= 0 THEN selected
    ELSE LET best_pkg == GreedyScan(g, pkgs, selected, temp_pos, 1, NoPackage, NegInf)
         IN  IF best_pkg = NoPackage THEN selected
             ELSE GreedyLoop(g, pkgs, Append(selected, best_pkg),
                      GreedyNextPos(temp_pos, PackageOf(pkgs, best_pkg)),
                      rounds - 1)

\* PackageSelector.select_packages_greedy: the list of selected package ids
select_packages_greedy(g, pkgs, current_pos, max_packages) ==
    GreedyLoop(g, pkgs, <<>>, current_pos, max_packages)

\* the packages of a list that are not among the selected ids
Unselected(avail, selected) ==
    {k \in 1..Len(avail) : \A i \in 1..Len(selected) : selected[i] # avail[k].id}

\* the first package, among those at the indices ks, whose pickup is nearest
\* to point: Python's min(..., key=...) and the strict "<" scan both keep
\* the first minimum
NearestPickup(avail, ks, point) ==
    LET d(k) == euclidean_distance(point, avail[k].pickup_pos)
    IN  avail[SetMin({k \in ks : \A j \in ks : d(k) <= d(j)})]

RECURSIVE SumPickup(_, _, _, _)
SumPickup(pkgs, selected, i, axis) ==
    IF i > Len(selected) THEN 0
    ELSE PackageOf(pkgs, selected[i]).pickup_pos[axis]
         + SumPickup(pkgs, selected, i + 1, axis)

\* the clustering loop of select_packages_by_density
\* (package_selector.py:212-235)
RECURSIVE DensityLoop(_, _, _)
DensityLoop(avail, selected, rounds) ==
    IF rounds <= 0 \/ Len(avail) <= Len(selected) THEN selected
    ELSE LET centroid == <<SumPickup(avail, selected, 1, 1) \div Len(selected),
                           SumPickup(avail, selected, 1, 2) \div Len(selected)>>
             rest == Unselected(avail, selected)
         IN  IF rest = {} THEN selected
             ELSE DensityLoop(avail,
                      Append(selected, NearestPickup(avail, rest, centroid).id),
                      rounds - 1)

RECURSIVE SumProfit(_, _, _, _, _)
SumProfit(g, pkgs, selected, current_pos, i) ==
    IF i > Len(selected) THEN 0
    ELSE calculate_package_profit(g, PackageOf(pkgs, selected[i]), current_pos)
         + SumProfit(g, pkgs, selected, current_pos, i + 1)

\* PackageSelector.select_packages_by_density: the list of selected ids
select_packages_by_density(g, pkgs, current_pos, max_packages) ==
    LET eligible(pkg) == ~Ineligible(pkg)
        available == SelectSeq(pkgs, eligible)
    IN  IF available = <<>> THEN <<>>
        ELSE LET nearest == NearestPickup(available, 1..Len(available), current_pos)
                 selected == DensityLoop(available, <<nearest.id>>, max_packages - 1)
                 total_profit == SumProfit(g, pkgs, selected, current_pos, 1)
                 best == select_best_package(g, pkgs, current_pos)
             IN  IF total_profit > 0 THEN selected
                 ELSE IF best # NoPackage THEN <<best>> ELSE <<>>

(***************************************************************************)
(* Inputs of the road graph.  PA, PB, PD lie on a line; PC is within the   *)
(* tolerance of PB in both axes (80 and 80) and farther than the tolerance *)
(* from it in a straight line (113); PE is within the tolerance of PA.     *)
(***************************************************************************)
MaxPoints == 1
MaxStreets == 3

PA == <<0, 0>>
PB == <<400, 0>>
PC == <<480, 80>>
PD == <<800, 0>>
PE == <<0, 60>>

PointPool == {PA, PC}
StreetPool == {[start |-> PA, end |-> PD], [start |-> PA, end |-> PB],
               [start |-> PC, end |-> PD], [start |-> PB, end |-> PC],
               [start |-> PD, end |-> PA]}
QueryPool == {PA, PC, PE}

SeqsUpTo(S, n) == UNION {[1..k -> S] : k \in 0..n}

RoadData == [points : SeqsUpTo(PointPool, MaxPoints),
             streets : SeqsUpTo(StreetPool, MaxStreets)]

graph == [nodes |-> nodes, edges |-> edges]

(***************************************************************************)
(* The road graph on its own: a Graph object is constructed, built once    *)
(* from a road snapshot (main.py:32,74; test_components.py:57-58), then    *)
(* queried.  call holds the last operation, its arguments and its result.  *)
(* The queries change nothing of the graph, so a query that follows        *)
(* another query returns what it returns right after the build: each is    *)
(* taken from the built state.                                             *)
(***************************************************************************)
Init ==
    /\ nodes = EmptyGraph.nodes
    /\ edges = EmptyGraph.edges
    /\ call = [op |-> "Graph"]
    /\ packages = <<>>
    /\ loaded = <<>>
    /\ marks = <<>>
    /\ controller = NoController
    /\ NoServer

\* graph = Graph(); graph.build_from_road_data(road_data)
BuildGraph ==
    /\ call.op = "Graph"
    /\ \E road_data \in RoadData :
          LET g == build_from_road_data(EmptyGraph, road_data)
          IN  /\ nodes' = g.nodes
              /\ edges' = g.edges
              /\ call' = [op |-> "build_from_road_data"]
    /\ UNCHANGED <<controller, serverVars, catalogVars>>

\* graph.astar(start_id, goal_id) and graph.dijkstra(start_id, goal_id) on
\* the same pair, as test_road_network runs them
ShortestPath ==
    /\ call.op = "build_from_road_data"
    /\ \E start_id \in NodeIds(graph), goal_id \in NodeIds(graph) :
          call' = [op |-> "shortest_path",
                   start_id |-> start_id, goal_id |-> goal_id,
                   astar |-> astar(graph, start_id, goal_id),
                   dijkstra |-> dijkstra(graph, start_id, goal_id)]
    /\ UNCHANGED <<controller, serverVars, graphVars, catalogVars>>

\* graph.find_path(start_pos, goal_pos, use_astar)
FindPath ==
    /\ call.op = "build_from_road_data"
    /\ \E start_pos \in QueryPool, goal_pos \in QueryPool, use_astar \in BOOLEAN :
          call' = [op |-> "find_path",
                   start_pos |-> start_pos, goal_pos |-> goal_pos,
                   use_astar |-> use_astar,
                   result |-> find_path(graph, start_pos, goal_pos, use_astar)]
    /\ UNCHANGED <<controller, serverVars, graphVars, catalogVars>>

\* graph.find_nearest_node(point), on a graph built or not yet built
FindNearestNode ==
    /\ call.op \in {"Graph", "build_from_road_data"}
    /\ \E point \in QueryPool \cup {PB} :
          call' = [op |-> "find_nearest_node", point |-> point,
                   result |-> find_nearest_node(graph, point)]
    /\ UNCHANGED <<controller, serverVars, graphVars, catalogVars>>

Next == BuildGraph \/ ShortestPath \/ FindPath \/ FindNearestNode

Spec == Init /\ [][Next]_vars

(***************************************************************************)
(* The selector on its own: a PackageSelector over a built graph; its      *)
(* catalog is loaded, its dropoffs updated, its packages marked delivered, *)
(* and the select operations are called on it.  The select operations      *)
(* change nothing, so each is taken from a state a catalog operation left. *)
(* Two history variables follow the catalog: loaded[id] tells whether the  *)
(* snapshot named a dropoff for id and whether update_package_dropoff has  *)
(* set one since, marks[id] how often mark_delivered(id) was called since  *)
(* the load ("never", "once", "again").                                    *)
(***************************************************************************)
MaxPackages == 2

PF == <<400, 300>>

\* the entries a package snapshot is made of: position, dropoff or none,
\* reward or none
PackagePool ==
    {[position |-> PA, dropoff |-> PA, reward |-> 0],
     [position |-> PA, dropoff |-> PB, reward |-> 100],
     [position |-> PD, dropoff |-> PB, reward |-> 100],
     [position |-> PD, dropoff |-> None, reward |-> NoReward]}

\* the snapshots: entry k has id k
PackagesData ==
    {[k \in 1..Len(es) |-> [id |-> k, position |-> es[k].position,
                            dropoff |-> es[k].dropoff, reward |-> es[k].reward]] :
        es \in SeqsUpTo(PackagePool, MaxPackages)}

DropoffPool == {PB}
PositionPool == {PA, PB}

\* no roads; a detour PA - PF - PD; PD on its own beside the street PA - PB
SelectorRoads ==
    {[points |-> <<>>, streets |-> <<>>],
     [points |-> <<>>, streets |-> <<[start |-> PA, end |-> PF],
                                     [start |-> PF, end |-> PD]>>],
     [points |-> <<PD>>, streets |-> <<[start |-> PA, end |-> PB]>>]}

SelectorInit ==
    /\ \E road_data \in SelectorRoads :
          LET g == build_from_road_data(EmptyGraph, road_data)
          IN  nodes = g.nodes /\ edges = g.edges
    /\ packages = <<>>
    /\ loaded = <<>>
    /\ marks = <<>>
    /\ call = [op |-> "catalog"]
    /\ controller = NoController
    /\ NoServer

\* selector.load_packages(packages_data)
LoadPackages ==
    /\ call.op = "catalog"
    /\ \E packages_data \in PackagesData :
          /\ packages' = load_packages(packages_data)
          /\ loaded' = [k \in 1..Len(packages_data) |->
                           IF packages_data[k].dropoff = None THEN "no dropoff"
                                                              ELSE "dropoff"]
          /\ marks' = [k \in 1..Len(packages_data) |-> "never"]
    /\ UNCHANGED <<controller, serverVars, graphVars, call>>

\* selector.update_package_dropoff(package_id, dropoff_pos)
UpdatePackageDropoff ==
    /\ call.op = "catalog"
    /\ \E package_id \in 1..MaxPackages, dropoff_pos \in DropoffPool :
          /\ packages' = update_package_dropoff(packages, package_id, dropoff_pos)
          /\ loaded' = [k \in DOMAIN loaded |->
                           IF k = package_id /\ loaded[k] = "no dropoff"
                           THEN "updated" ELSE loaded[k]]
    /\ UNCHANGED <<controller, serverVars, graphVars, call, marks>>

\* selector.mark_delivered(package_id)
MarkDelivered ==
    /\ call.op = "catalog"
    /\ \E package_id \in 1..MaxPackages :
          /\ packages' = mark_delivered(packages, package_id)
          /\ marks' = [k \in DOMAIN marks |->
                          IF k # package_id THEN marks[k]
                          ELSE IF marks[k] = "never" THEN "once" ELSE "again"]
    /\ UNCHANGED <<controller, serverVars, graphVars, call, loaded>>

\* selector.select_best_package(current_pos)
SelectBest ==
    /\ call.op = "catalog"
    /\ \E current_pos \in PositionPool :
          call' = [op |-> "select_best_package", current_pos |-> current_pos,
                   result |-> select_best_package(graph, packages, current_pos)]
    /\ UNCHANGED <<controller, serverVars, graphVars, catalogVars>>

\* selector.select_packages_greedy(current_pos, max_packages)
SelectGreedy ==
    /\ call.op = "catalog"
    /\ \E current_pos \in PositionPool, max_packages \in 0..MAX_PACKAGES_PER_TRIP :
          call' = [op |-> "select_packages_greedy", current_pos |-> current_pos,
                   max_packages |-> max_packages,
                   result |-> select_packages_greedy(graph, packages, current_pos,
                                                     max_packages)]
    /\ UNCHANGED <<controller, serverVars, graphVars, catalogVars>>

\* selector.select_packages_by_density(current_pos, max_packages)
SelectByDensity ==
    /\ call.op = "catalog"
    /\ \E current_pos \in PositionPool, max_packages \in 0..MAX_PACKAGES_PER_TRIP :
          call' = [op |-> "select_packages_by_density", current_pos |-> current_pos,
                   max_packages |-> max_packages,
                   result |-> select_packages_by_density(graph, packages, current_pos,
                                                         max_packages)]
    /\ UNCHANGED <<controller, serverVars, graphVars, catalogVars>>

SelectorNext ==
    \/ LoadPackages \/ UpdatePackageDropoff \/ MarkDelivered
    \/ SelectBest \/ SelectGreedy \/ SelectByDensity

SelectorSpec == SelectorInit /\ [][SelectorNext]_vars

(***************************************************************************)
(* Reference notions the graph claims are stated with, defined on the      *)
(* stored edges alone.                                                     *)
(***************************************************************************)
EdgesOf(g, u) == {g.edges[u][k] : k \in 1..Len(g.edges[u])}

RECURSIVE ReachableFrom(_, _)
ReachableFrom(g, S) ==
    LET T == S \cup {e[1] : e \in UNION {EdgesOf(g, u) : u \in S}}
    IN  IF T = S THEN S ELSE ReachableFrom(g, T)

Reachable(g, a, b) == b \in ReachableFrom(g, {a})

\* the stored edges into v, as <<source node, weight>>
InEdges(g, v) ==
    UNION {{<<x, f[2]>> : f \in {h \in EdgesOf(g, x) : h[1] = v}} : x \in NodeIds(g)}

\* least total weight of a walk from a to each node, by rounds of relaxation
RECURSIVE LeastWeights(_, _, _)
LeastWeights(g, d, rounds) ==
    IF rounds = 0 THEN d
    ELSE LeastWeights(g,
            [v \in NodeIds(g) |->
                SetMin({d[v]} \cup {d[p[1]] + p[2] :
                                     p \in {q \in InEdges(g, v) : d[q[1]] # Inf}})],
            rounds - 1)

LeastWeight(g, a, b) ==
    LeastWeights(g, [v \in NodeIds(g) |-> IF v = a THEN 0 ELSE Inf],
                 Cardinality(NodeIds(g)))[b]

\* the total weights a node path can have, one stored edge chosen per hop
RECURSIVE PathWeights(_, _, _)
PathWeights(g, path, k) ==
    IF k >= Len(path) THEN {0}
    ELSE {e[2] + w : e \in {f \in EdgesOf(g, path[k]) : f[1] = path[k + 1]},
                     w \in PathWeights(g, path, k + 1)}

\* sums of rounded distances differ from the rounded sums by less than one
\* thousandth per edge of a simple path
Rounding(g) == Cardinality(NodeIds(g))

\* C1: on every built graph and every pair of node ids, astar and dijkstra
\* both return no path, or both return a path, and then with the same
\* total distance (up to the rounding of the sums)
AstarDijkstraSameDistance ==
    call.op = "shortest_path" =>
        \/ call.astar = None /\ call.dijkstra = None
        \/ /\ call.astar # None
           /\ call.dijkstra # None
           /\ Abs(call.astar[2] - call.dijkstra[2]) <= Rounding(graph)

\* C2: for nodes joined by some path, astar returns a node sequence from
\* start to goal along stored edges, its distance is the sum of the weights
\* of those edges, and no path from start to goal weighs less
AstarPathIsShortest ==
    (call.op = "shortest_path" /\ Reachable(graph, call.start_id, call.goal_id)) =>
        /\ call.astar # None
        /\ LET path == call.astar[1]
           IN  /\ path[1] = call.start_id
               /\ path[Len(path)] = call.goal_id
               /\ \A k \in 1..(Len(path) - 1) :
                     \E e \in EdgesOf(graph, path[k]) : e[1] = path[k + 1]
               /\ call.astar[2] \in PathWeights(graph, path, 1)
               /\ call.astar[2] <= LeastWeight(graph, call.start_id, call.goal_id)
                                   + Rounding(graph)

FindPathSamePoint ==
    (call.op = "find_path" /\ call.start_pos = call.goal_pos /\ NodeIds(graph) # {}) =>
        call.result = <<<<call.start_pos>>, 0>>

\* C5 as stated: a returned path starts exactly at start_pos and ends
\* exactly at goal_pos
FindPathLiteralEnds ==
    (call.op = "find_path" /\ call.result # None) =>
        /\ call.result[1][1] = call.start_pos
        /\ call.result[1][Len(call.result[1])] = call.goal_pos

\* C5 as amended: a returned path starts exactly at start_pos when
\* start_pos is farther than the tolerance (straight line) from its nearest
\* node, and otherwise at that nearest node's point, which is within the
\* tolerance of start_pos; likewise it ends at goal_pos or at the node
\* nearest to goal_pos
FindPathEndsWithinTolerance ==
    (call.op = "find_path" /\ call.result # None) =>
        LET path == call.result[1]
            near(p) == nodes[find_nearest_node(graph, p)]
            far(p) == euclidean_distance(p, near(p)) > Tol
        IN  /\ path[1] = IF far(call.start_pos) THEN call.start_pos
                                                ELSE near(call.start_pos)
            /\ path[Len(path)] = IF far(call.goal_pos) THEN call.goal_pos
                                                       ELSE near(call.goal_pos)
            /\ euclidean_distance(path[1], call.start_pos) <= Tol
            /\ euclidean_distance(path[Len(path)], call.goal_pos) <= Tol

\* a path found between a position off every node and a position within
\* the tolerance of a node but not on it
FindPathEndsWitness ==
    /\ call.op = "find_path"
    /\ call.result # None
    /\ call.result[1][1] = call.start_pos
    /\ call.start_pos \notin {nodes[i] : i \in NodeIds(graph)}
    /\ call.result[1][Len(call.result[1])] # call.goal_pos
    /\ Len(call.result[1]) >= 3

\* C6: for existing nodes a # b, astar and dijkstra return None exactly
\* when b cannot be reached from a along stored edges
NotFoundIffUnreachable ==
    (call.op = "shortest_path" /\ call.start_id # call.goal_id) =>
        /\ call.astar = None <=> ~Reachable(graph, call.start_id, call.goal_id)
        /\ call.dijkstra = None <=> ~Reachable(graph, call.start_id, call.goal_id)

\* both searches end with None on a graph that has edges out of the start
NotFoundWitness ==
    /\ call.op = "shortest_path"
    /\ call.start_id # call.goal_id
    /\ call.astar = None
    /\ call.dijkstra = None
    /\ edges[call.start_id] # <<>>

(***************************************************************************)
(* Reference notions the selector claims are stated with.                  *)
(***************************************************************************)
\* the position pick i of a greedy result is scored from
ScoredFrom(i) ==
    IF i = 1 THEN call.current_pos
    ELSE PackageOf(packages, call.result[i - 1]).dropoff_pos

\* the candidates of pick i: undelivered, known dropoff, not picked before
Candidates(i) ==
    {k \in 1..Len(packages) :
        /\ ~packages[k].delivered
        /\ packages[k].dropoff_pos # None
        /\ \A j \in 1..(i - 1) : call.result[j] # packages[k].id}

ProfitAt(k, i) == calculate_package_profit(graph, packages[k], ScoredFrom(i))

\* C7: every pick of select_packages_greedy is a candidate of greatest
\* profit, scored from the start position (first pick) or from the previous
\* pick's dropoff, and that profit is greater than 0; the list ends short
\* of max_packages only where no candidate has a profit greater than 0
GreedyPicksBestPositive ==
    call.op = "select_packages_greedy" =>
        LET n == Len(call.result)
        IN  /\ \A i \in 1..n :
                  \E k \in Candidates(i) :
                      /\ packages[k].id = call.result[i]
                      /\ ProfitAt(k, i) > 0
                      /\ \A c \in Candidates(i) : ProfitAt(c, i) <= ProfitAt(k, i)
            /\ n < call.max_packages =>
                  \A c \in Candidates(n + 1) : ProfitAt(c, n + 1) <= 0

\* a second pick that is profitable from the first pick's dropoff and not
\* from the start position
GreedyWitness ==
    /\ call.op = "select_packages_greedy"
    /\ Len(call.result) = 2
    /\ calculate_package_profit(graph, PackageOf(packages, call.result[2]),
                                call.current_pos) <= 0

\* C8: select_packages_greedy returns at most max_packages packages,
\* pairwise distinct, each undelivered and with a known dropoff
GreedyWithinCap ==
    call.op = "select_packages_greedy" =>
        /\ Len(call.result) <= call.max_packages
        /\ \A i, j \in 1..Len(call.result) : i # j => call.result[i] # call.result[j]
        /\ \A i \in 1..Len(call.result) :
              /\ call.result[i] \in Ids(packages)
              /\ ~PackageOf(packages, call.result[i]).delivered
              /\ PackageOf(packages, call.result[i]).dropoff_pos # None

\* the cap cuts the selection: a candidate with positive profit is left
GreedyCapWitness ==
    /\ call.op = "select_packages_greedy"
    /\ call.max_packages > 0
    /\ Len(call.result) = call.max_packages
    /\ \E c \in Candidates(Len(call.result) + 1) :
          ProfitAt(c, Len(call.result) + 1) > 0

\* the ids a select operation returned
Selected ==
    IF call.op = "select_best_package"
    THEN (IF call.result = NoPackage THEN {} ELSE {call.result})
    ELSE IF call.op \in {"select_packages_greedy", "select_packages_by_density"}
    THEN {call.result[i] : i \in 1..Len(call.result)}
    ELSE {}

\* C9: a package whose dropoff is unset (none in the snapshot, none set
\* since) is in the result of no select operation; once its dropoff is set
\* it is a candidate: select_best_package returns a package whenever one is
\* undelivered with a dropoff, and none scores above the one returned
NoDropoffNeverSelected ==
    /\ \A id \in Selected : id \in DOMAIN loaded /\ loaded[id] # "no dropoff"
    /\ call.op = "select_best_package" =>
          LET eligible == {k \in 1..Len(packages) :
                              ~packages[k].delivered /\ loaded[k] # "no dropoff"}
              profit(k) == calculate_package_profit(graph, packages[k], call.current_pos)
          IN  IF eligible = {} THEN call.result = NoPackage
              ELSE \E k \in eligible :
                      /\ packages[k].id = call.result
                      /\ \A o \in eligible : profit(o) <= profit(k)

\* a package loaded without a dropoff, given one later, is selected while
\* another package still has none
NoDropoffWitness ==
    /\ \E id \in Selected : loaded[id] = "updated"
    /\ \E id \in DOMAIN loaded : loaded[id] = "no dropoff"

\* the rewards of the ids mark_delivered was called for, each once
RECURSIVE RewardOfMarked(_)
RewardOfMarked(k) ==
    IF k > Len(packages) THEN 0
    ELSE (IF marks[k] # "never" THEN packages[k].reward ELSE 0) + RewardOfMarked(k + 1)

\* C10: mark_delivered(id) called twice leaves what one call leaves: the
\* package is delivered, get_total_reward_earned counts its reward once,
\* and the second call changes nothing of the catalog
MarkDeliveredTwice ==
    /\ [](/\ \A k \in 1..Len(packages) : packages[k].delivered <=> marks[k] # "never"
          /\ get_total_reward_earned(packages) = RewardOfMarked(1))
    /\ [][(\E k \in DOMAIN marks \cap DOMAIN marks' :
                marks[k] = "once" /\ marks'[k] = "again")
            => packages' = packages]_vars

\* mark_delivered was called again for a delivered package
MarkDeliveredTwiceWitness ==
    \E k \in DOMAIN marks :
        marks[k] = "again" /\ packages[k].delivered /\ packages[k].reward > 0

(***************************************************************************)
(* The catalog on its own: load_packages and mark_delivered, each call of  *)
(* mark_delivered recorded with how it ended.  mark_delivered has no raise *)
(* statement and calls nothing that raises on an integer id, so every call *)
(* returns.                                                                *)
(***************************************************************************)
mark_delivered_outcome(pkgs, package_id) == "returned"

\* selector.mark_delivered(package_id), the call recorded
MarkDeliveredCall ==
    /\ call.op \in {"catalog", "mark_delivered"}
    /\ \E package_id \in 1..MaxPackages :
          /\ packages' = mark_delivered(packages, package_id)
          /\ marks' = [k \in DOMAIN marks |->
                          IF k # package_id THEN marks[k]
                          ELSE IF marks[k] = "never" THEN "once" ELSE "again"]
          /\ call' = [op |-> "mark_delivered", package_id |-> package_id,
                      in_catalog |-> package_id \in Ids(packages),
                      outcome |-> mark_delivered_outcome(packages, package_id)]
    /\ UNCHANGED <<controller, serverVars, graphVars, loaded>>

CatalogNext == LoadPackages \/ MarkDeliveredCall

CatalogSpec == SelectorInit /\ [][CatalogNext]_vars

\* C11 (as stated): a package that is delivered is in the catalog and
\* delivered after every catalog operation
DeliveredStays ==
    [][\A k \in 1..Len(packages) :
          packages[k].delivered =>
              \E j \in 1..Len(packages') :
                  packages'[j].id = packages[k].id /\ packages'[j].delivered]_vars

\* C12 (as stated): mark_delivered for an id that is not in the catalog
\* ends in an error, it does not return
MarkDeliveredAbsentFails ==
    (call.op = "mark_delivered" /\ ~call.in_catalog) => call.outcome = "raised"

(***************************************************************************)
(* calculate_package_profit for one package of the catalog from two        *)
(* positions, over the road networks of SelectorRoads.                     *)
(***************************************************************************)
ProfitPositions == {PA, PB, <<260, 0>>, <<400, 400>>}

\* selector.calculate_package_profit(package, pos1) and (package, pos2)
ProfitCompare ==
    /\ call.op = "catalog"
    /\ \E k \in 1..Len(packages), pos1 \in ProfitPositions, pos2 \in ProfitPositions :
          call' = [op |-> "calculate_package_profit", package |-> k,
                   pos1 |-> pos1, pos2 |-> pos2,
                   profit1 |-> calculate_package_profit(graph, packages[k], pos1),
                   profit2 |-> calculate_package_profit(graph, packages[k], pos2)]
    /\ UNCHANGED <<controller, serverVars, graphVars, catalogVars>>

ProfitNext == LoadPackages \/ ProfitCompare

\* the road networks of SelectorRoads, and the detour PA - PF - PD with PB
\* on its own beside it
ProfitRoads ==
    SelectorRoads
    \cup {[points |-> <<PB>>, streets |-> <<[start |-> PA, end |-> PF],
                                           [start |-> PF, end |-> PD]>>]}

ProfitInit ==
    /\ \E road_data \in ProfitRoads :
          LET g == build_from_road_data(EmptyGraph, road_data)
          IN  nodes = g.nodes /\ edges = g.edges
    /\ packages = <<>>
    /\ loaded = <<>>
    /\ marks = <<>>
    /\ call = [op |-> "catalog"]
    /\ controller = NoController
    /\ NoServer

ProfitSpec == ProfitInit /\ [][ProfitNext]_vars

\* whether calculate_package_profit measures along the graph: both legs
\* have a path
ProfitAlongPaths(package, pos) ==
    /\ find_path(graph, pos, package.pickup_pos, TRUE) # None
    /\ find_path(graph, package.pickup_pos, package.dropoff_pos, TRUE) # None

\* the distance to the pickup that calculate_package_profit charges
ChargedToPickup(package, pos) ==
    IF ProfitAlongPaths(package, pos)
    THEN find_path(graph, pos, package.pickup_pos, TRUE)[2]
    ELSE euclidean_distance(pos, package.pickup_pos)

BRUTEFORCE_LIMIT == 6

\* RouteOptimizer._distance: the find_path distance, or the straight line
Distance(g, pos1, pos2) ==
    LET result == find_path(g, pos1, pos2, TRUE)
    IN  IF result # None THEN result[2] ELSE euclidean_distance(pos1, pos2)

\* the loop of _calculate_route_distance (route_optimizer.py:118-124)
RECURSIVE RouteDistanceFrom(_, _, _, _, _)
RouteDistanceFrom(g, pkgs, k, current_pos, total_distance) ==
    IF k > Len(pkgs) THEN total_distance
    ELSE RouteDistanceFrom(g, pkgs, k + 1, pkgs[k].dropoff_pos,
                           total_distance
                           + Distance(g, current_pos, pkgs[k].pickup_pos)
                           + Distance(g, pkgs[k].pickup_pos, pkgs[k].dropoff_pos))

\* RouteOptimizer._calculate_route_distance
calculate_route_distance(g, pkgs, start_pos) ==
    RouteDistanceFrom(g, pkgs, 1, start_pos, 0)

\* the list s without its k-th element
WithoutIndex(s, k) == [i \in 1..(Len(s) - 1) |-> IF i < k THEN s[i] ELSE s[i + 1]]

\* min(unvisited, key = distance to the pickup): the first index of least key
NearestUnvisited(g, unvisited, current_pos) ==
    LET key(i) == Distance(g, current_pos, unvisited[i].pickup_pos)
    IN  CHOOSE i \in 1..Len(unvisited) :
            /\ \A j \in 1..Len(unvisited) : key(i) <= key(j)
            /\ \A j \in 1..(i - 1) : key(j) > key(i)

\* the loop of optimize_delivery_order (route_optimizer.py:47-53)
RECURSIVE NearestNeighborLoop(_, _, _, _)
NearestNeighborLoop(g, unvisited, optimized, current_pos) ==
    IF unvisited = <<>> THEN optimized
    ELSE LET n == NearestUnvisited(g, unvisited, current_pos)
         IN  NearestNeighborLoop(g, WithoutIndex(unvisited, n),
                                 Append(optimized, unvisited[n]),
                                 unvisited[n].dropoff_pos)

\* RouteOptimizer.optimize_delivery_order
optimize_delivery_order(g, pkgs, start_pos) ==
    IF Len(pkgs) <= 1 THEN pkgs
    ELSE NearestNeighborLoop(g, pkgs, <<>>, start_pos)

\* itertools.permutations(s): the orderings of s, by positions in
\* lexicographic order
RECURSIVE permutations(_)
RECURSIVE PermutationsFrom(_, _)
PermutationsFrom(s, k) ==
    IF k > Len(s) THEN <<>>
    ELSE LET rest == permutations(WithoutIndex(s, k))
         IN  [i \in 1..Len(rest) |-> <<s[k]>> \o rest[i]] \o PermutationsFrom(s, k + 1)

permutations(s) == IF s = <<>> THEN << <<>> >> ELSE PermutationsFrom(s, 1)

BruteBetterOrSame(distance, best_distance) == distance <= best_distance

\* route_optimizer.py:85
BruteBetter(distance, best_distance) == distance < best_distance

\* the loop of optimize_delivery_order_bruteforce (route_optimizer.py:83-87):
\* permutation k becomes the best order when its distance is better than
\* the best distance so far, which is that of every permutation before it,
\* and the loop ends with the last permutation that became the best order
BruteScan(g, perms, start_pos, best_order, best_distance) ==
    LET distances == {<<k, calculate_route_distance(g, perms[k], start_pos)>> :
                         k \in 1..Len(perms)}
        kept == {x \in distances :
                    /\ BruteBetter(x[2], best_distance)
                    /\ \A y \in distances : y[1] < x[1] => BruteBetter(x[2], y[2])}
    IN  IF kept = {} THEN best_order
        ELSE perms[(CHOOSE x \in kept : \A y \in kept : y[1] <= x[1])[1]]

\* RouteOptimizer.optimize_delivery_order_bruteforce
optimize_delivery_order_bruteforce(g, pkgs, start_pos) ==
    IF Len(pkgs) <= 1 THEN pkgs
    ELSE IF Len(pkgs) > BRUTEFORCE_LIMIT
    THEN optimize_delivery_order(g, pkgs, start_pos)
    ELSE BruteScan(g, permutations(pkgs), start_pos, pkgs, Inf)

(***************************************************************************)
(* The optimizer over the road networks of SelectorRoads.  The lists it is *)
(* given are made of the packages of RoutePackages, each at most once:     *)
(* every list of up to MaxRoute of the first RouteShort packages, the list *)
(* of the first BRUTEFORCE_LIMIT packages and the list of one more.        *)
(***************************************************************************)
MaxRoute == 3

RoutePackage(id, pickup_pos, dropoff_pos) ==
    [id |-> id, pickup_pos |-> pickup_pos, dropoff_pos |-> dropoff_pos,
     reward |-> 100, delivered |-> FALSE]

RoutePackages ==
    <<RoutePackage(1, PB, PD), RoutePackage(2, PA, PB), RoutePackage(3, PD, PB),
      RoutePackage(4, PA, PB), RoutePackage(5, PD, PA), RoutePackage(6, PB, PA),
      RoutePackage(7, PA, PD)>>

\* the ids of the packages the short lists are made of
RouteShort == {1, 2, 3, 4}

ListOf(ids) == [i \in DOMAIN ids |-> RoutePackages[ids[i]]]

RouteStarts == {PA, PD, <<260, 0>>}

\* the calls: a package list and a start position
RouteInputs ==
    [packages : {ListOf(ids) :
                    ids \in {s \in SeqsUpTo(RouteShort, MaxRoute) :
                                \A i, j \in DOMAIN s : i # j => s[i] # s[j]}},
     start_pos : RouteStarts]
    \cup [packages : {ListOf([i \in 1..BRUTEFORCE_LIMIT |-> i]),
                      ListOf([i \in 1..(BRUTEFORCE_LIMIT + 1) |-> i])},
          start_pos : {<<260, 0>>}]

\* optimizer.optimize_delivery_order_bruteforce(packages, start_pos)
OrderBruteforce ==
    /\ call.op = "catalog"
    /\ \E in \in RouteInputs :
          call' = [op |-> "optimize_delivery_order_bruteforce",
                   packages |-> in.packages, start_pos |-> in.start_pos,
                   result |-> optimize_delivery_order_bruteforce(graph, in.packages,
                                                                 in.start_pos)]
    /\ UNCHANGED <<controller, serverVars, graphVars, catalogVars>>

\* optimizer.optimize_delivery_order(packages, start_pos)
OrderNearest ==
    /\ call.op = "catalog"
    /\ \E in \in RouteInputs :
          call' = [op |-> "optimize_delivery_order",
                   packages |-> in.packages, start_pos |-> in.start_pos,
                   result |-> optimize_delivery_order(graph, in.packages, in.start_pos)]
    /\ UNCHANGED <<controller, serverVars, graphVars, catalogVars>>

(***************************************************************************)
(* RouteOptimizer.build_full_path.                                         *)
(***************************************************************************)
\* route_optimizer.py:167-173: the path after the leg to the pickup, where
\* result is what find_path returned for the leg
ExtendedToPickup(full_path, result, pickup_pos) ==
    IF result # None
    THEN full_path \o (IF full_path # <<>>
                       THEN SubSeq(result[1], 1, Len(result[1]) - 1)
                       ELSE result[1])
    ELSE Append(full_path, pickup_pos)

\* route_optimizer.py:177-183: the path after the leg to the dropoff
ExtendedToDropoff(full_path, result, dropoff_pos) ==
    IF result # None THEN full_path \o Tail(result[1])
    ELSE Append(full_path, dropoff_pos)

LegDistancePathOnly(result, from_pos, to_pos) ==
    IF result # None THEN result[2] ELSE 0

\* the distance either leg adds: that of the path found, or the straight line
LegDistance(result, from_pos, to_pos) ==
    IF result # None THEN result[2] ELSE euclidean_distance(from_pos, to_pos)

\* the loop of build_full_path (route_optimizer.py:164-185)
RECURSIVE FullPathFrom(_, _, _, _, _, _)
FullPathFrom(g, pkgs, k, current_pos, full_path, total_distance) ==
    IF k > Len(pkgs) THEN <<full_path, total_distance>>
    ELSE FullPathFrom(g, pkgs, k + 1, pkgs[k].dropoff_pos,
             ExtendedToDropoff(
                 ExtendedToPickup(full_path,
                     find_path(g, current_pos, pkgs[k].pickup_pos, TRUE),
                     pkgs[k].pickup_pos),
                 find_path(g, pkgs[k].pickup_pos, pkgs[k].dropoff_pos, TRUE),
                 pkgs[k].dropoff_pos),
             total_distance
             + LegDistance(find_path(g, current_pos, pkgs[k].pickup_pos, TRUE),
                           current_pos, pkgs[k].pickup_pos)
             + LegDistance(find_path(g, pkgs[k].pickup_pos, pkgs[k].dropoff_pos, TRUE),
                           pkgs[k].pickup_pos, pkgs[k].dropoff_pos))

\* RouteOptimizer.build_full_path: <<full_path, total_distance>>
build_full_path(g, pkgs, start_pos) == FullPathFrom(g, pkgs, 1, start_pos, <<>>, 0)

\* optimizer.build_full_path(packages, start_pos)
BuildFullPath ==
    /\ call.op = "catalog"
    /\ \E in \in RouteInputs :
          call' = [op |-> "build_full_path",
                   packages |-> in.packages, start_pos |-> in.start_pos,
                   result |-> build_full_path(graph, in.packages, in.start_pos)]
    /\ UNCHANGED <<controller, serverVars, graphVars, catalogVars>>

RouteNext == OrderBruteforce \/ OrderNearest \/ BuildFullPath

RouteSpec == SelectorInit /\ [][RouteNext]_vars

\* the orderings of the positions 1..n
Orderings(n) == {f \in [1..n -> 1..n] : \A i, j \in 1..n : i # j => f[i] # f[j]}

\* ordering f comes before ordering h in lexicographic order, or is h
LexBeforeOrSame(f, h) ==
    \/ f = h
    \/ \E i \in DOMAIN f : f[i] < h[i] /\ \A j \in 1..(i - 1) : f[j] = h[j]

\* the distance of a route: from the start to the first pickup, then from
\* each pickup to its dropoff and from each dropoff to the next pickup
TourDistance(pkgs, start_pos) ==
    LET from(i) == IF i = 1 THEN start_pos ELSE pkgs[i - 1].dropoff_pos
        leg(i) == Distance(graph, from(i), pkgs[i].pickup_pos)
                  + Distance(graph, pkgs[i].pickup_pos, pkgs[i].dropoff_pos)
        sum[i \in 0..Len(pkgs)] == IF i = 0 THEN 0 ELSE sum[i - 1] + leg(i)
    IN  sum[Len(pkgs)]

\* C14: for 2 to 6 packages optimize_delivery_order_bruteforce returns an
\* ordering of its input of least total route distance, the first such in
\* the enumeration (lexicographic) order of orderings, and its distance is
\* at most that of the order optimize_delivery_order returns
BruteforceIsFirstMinimum ==
    (/\ call.op = "optimize_delivery_order_bruteforce"
     /\ Len(call.packages) >= 2
     /\ Len(call.packages) <= 6) =>
        LET n == Len(call.packages)
            order(f) == [i \in 1..n |-> call.packages[f[i]]]
            tours == {<<f, TourDistance(order(f), call.start_pos)>> : f \in Orderings(n)}
        IN  /\ \E x \in tours :
                  /\ call.result = order(x[1])
                  /\ \A y \in tours :
                        /\ x[2] <= y[2]
                        /\ y[2] = x[2] => LexBeforeOrSame(x[1], y[1])
            /\ TourDistance(call.result, call.start_pos)
                 <= TourDistance(optimize_delivery_order(graph, call.packages,
                                                         call.start_pos),
                                 call.start_pos)

\* six packages, the order returned is not the order given, it is shorter
\* than the order of optimize_delivery_order, and another order is as short
BruteforceWitness ==
    /\ call.op = "optimize_delivery_order_bruteforce"
    /\ Len(call.packages) = 6
    /\ call.result # call.packages
    /\ TourDistance(call.result, call.start_pos)
         < TourDistance(optimize_delivery_order(graph, call.packages, call.start_pos),
                        call.start_pos)
    /\ \E f \in Orderings(6) :
          LET other == [i \in 1..6 |-> call.packages[f[i]]]
          IN  /\ other # call.result
              /\ TourDistance(other, call.start_pos)
                   = TourDistance(call.result, call.start_pos)

\* C15: on a graph with nodes find_nearest_node(p) returns a node at least
\* Euclidean distance from p, the one of lowest id among those; on a graph
\* without nodes it returns the result that stands for "no node"
NearestNodeIsLowestNearest ==
    call.op = "find_nearest_node" =>
        IF NodeIds(graph) = {} THEN call.result = NoNode
        ELSE LET d(i) == euclidean_distance(call.point, nodes[i])
             IN  /\ call.result \in NodeIds(graph)
                 /\ \A j \in NodeIds(graph) : d(call.result) <= d(j)
                 /\ \A j \in NodeIds(graph) :
                       d(j) = d(call.result) => call.result <= j

\* two nodes are nearest
NearestNodeWitness ==
    /\ call.op = "find_nearest_node"
    /\ call.result \in NodeIds(graph)
    /\ \E j \in NodeIds(graph) :
          /\ j > call.result
          /\ euclidean_distance(call.point, nodes[j])
               = euclidean_distance(call.point, nodes[call.result])

(***************************************************************************)
(* RouteOptimizer.optimize_and_evaluate and what it is made of.            *)
(***************************************************************************)
\* the loop of generate_waypoints (route_optimizer.py:142-144)
RECURSIVE WaypointsFrom(_, _, _)
WaypointsFrom(pkgs, k, waypoints) ==
    IF k > Len(pkgs) THEN waypoints
    ELSE WaypointsFrom(pkgs, k + 1,
                       waypoints \o <<pkgs[k].pickup_pos, pkgs[k].dropoff_pos>>)

\* RouteOptimizer.generate_waypoints
generate_waypoints(pkgs, start_pos) == WaypointsFrom(pkgs, 1, <<start_pos>>)

\* the rewards of the packages after the k-th
RECURSIVE SumRewardAfter(_, _)
SumRewardAfter(pkgs, k) ==
    IF k >= Len(pkgs) THEN 0 ELSE pkgs[k + 1].reward + SumRewardAfter(pkgs, k + 1)

\* sum(pkg.reward for pkg in packages)
RECURSIVE SumReward(_, _)
SumReward(pkgs, k) ==
    IF k > Len(pkgs) THEN 0 ELSE pkgs[k].reward + SumReward(pkgs, k + 1)

\* RouteOptimizer.estimate_total_cost: <<total_reward, total_distance, net_profit>>
estimate_total_cost(g, pkgs, start_pos) ==
    LET total_reward == SumReward(pkgs, 1)
        total_distance == calculate_route_distance(g, pkgs, start_pos)
    IN  <<total_reward, total_distance, total_reward - total_distance>>

\* the dict optimize_and_evaluate returns (route_optimizer.py:239-246)
Evaluation(optimized, cost, waypoints) ==
    [optimized_packages |-> optimized, waypoints |-> waypoints,
     total_reward |-> cost[1], total_distance |-> cost[2],
     net_profit |-> cost[3], package_count |-> Len(optimized)]

\* route_optimizer.py:236-237
Evaluate(g, optimized, start_pos) ==
    Evaluation(optimized, estimate_total_cost(g, optimized, start_pos),
               generate_waypoints(optimized, start_pos))

\* RouteOptimizer.optimize_and_evaluate
optimize_and_evaluate(g, pkgs, start_pos) ==
    IF pkgs = <<>> THEN Evaluation(<<>>, <<0, 0, 0>>, <<start_pos>>)
    ELSE IF Len(pkgs) <= 3
    THEN Evaluate(g, optimize_delivery_order_bruteforce(g, pkgs, start_pos), start_pos)
    ELSE Evaluate(g, optimize_delivery_order(g, pkgs, start_pos), start_pos)

(***************************************************************************)
(* The delivery controller (main.py).  initialize() has built the graph    *)
(* from the road snapshot and loaded the catalog from a non-empty package  *)
(* snapshot, and run() has entered its loop.  controller.pc is the place   *)
(* of run(): "cycle" before execute_delivery_cycle is called, then the     *)
(* places inside it, "done" after the loop is left.  The server answers as *)
(* it pleases: every API call has each of the outcomes api_client.py can   *)
(* return.  controller.trace lists the calls of the cycle in progress (or  *)
(* of the last one), each with the list or position it returned or was     *)
(* given; controller.delivered_before is the set of ids that were          *)
(* delivered when the cycle began.                                         *)
(***************************************************************************)
Event(op, value) == [op |-> op, value |-> value]

\* the ids of the delivered packages of a catalog
DeliveredIds(pkgs) == {pkgs[k].id : k \in {j \in 1..Len(pkgs) : pkgs[j].delivered}}

\* the Package objects of a list of ids
PackagesOf(pkgs, ids) == [i \in DOMAIN ids |-> PackageOf(pkgs, ids[i])]

\* the result a cycle has before optimize_and_evaluate is called
NoOptimization ==
    [optimized_packages |-> <<>>, waypoints |-> <<>>,
     total_reward |-> 0, total_distance |-> 0, net_profit |-> 0,
     package_count |-> 0]

ControllerInit ==
    /\ \E road_data \in SelectorRoads :
          LET g == build_from_road_data(EmptyGraph, road_data)
          IN  nodes = g.nodes /\ edges = g.edges
    /\ \E packages_data \in PackagesData :
          /\ packages_data # <<>>
          /\ packages = load_packages(packages_data)
          /\ loaded = [k \in 1..Len(packages_data) |->
                          IF packages_data[k].dropoff = None THEN "no dropoff"
                                                             ELSE "dropoff"]
          /\ marks = [k \in 1..Len(packages_data) |-> "never"]
    /\ call = [op |-> "run"]
    /\ controller = [pc |-> "cycle", cycle_count |-> 0, trace |-> <<>>,
                     current_pos |-> None, selected |-> <<>>,
                     optimization |-> NoOptimization,
                     delivered_before |-> {},
                     total_packages_delivered |-> 0,
                     total_distance_traveled |-> 0,
                     total_reward_earned |-> 0]
    /\ NoServer

\* the cycle returns False and run() leaves its loop (main.py:232-233)
CycleFails(event) ==
    controller' = [controller EXCEPT !.pc = "done",
                                     !.trace = Append(controller.trace, event)]

\* main.py:226-232 and 118-131: the next cycle begins; the position is
\* asked for and the undelivered packages are counted
GetCurrentPosition ==
    /\ controller.pc = "cycle"
    /\ \E current_pos \in PositionPool \cup {None} :
          LET event == Event("get_car_state", current_pos)
              begun == [controller EXCEPT
                            !.cycle_count = controller.cycle_count + 1,
                            !.trace = <<event>>,
                            !.current_pos = current_pos,
                            !.selected = <<>>,
                            !.optimization = NoOptimization,
                            !.delivered_before = DeliveredIds(packages)]
          IN  IF current_pos = None \/ get_undelivered_count(packages) = 0
              THEN controller' = [begun EXCEPT !.pc = "done"]
              ELSE controller' = [begun EXCEPT !.pc = "tokens"]
    /\ UNCHANGED <<serverVars, graphVars, catalogVars, call>>

\* main.py:135-143: the tokens are asked for; the answer is nothing, a
\* message without tokens, or tokens
GetTokens ==
    /\ controller.pc = "tokens"
    /\ \E token_response \in {"none", "message", "tokens"} :
          IF token_response # "tokens"
          THEN CycleFails(Event("get_tokens", <<>>))
          ELSE controller' = [controller EXCEPT
                   !.pc = "select",
                   !.trace = Append(controller.trace, Event("get_tokens", <<>>))]
    /\ UNCHANGED <<serverVars, graphVars, catalogVars, call>>

SelectionEmptyIgnored(selected_packages) == FALSE

\* "if not selected_packages" (main.py:166)
SelectionEmpty(selected_packages) == selected_packages = <<>>

\* main.py:165-168: the cycle ends on an empty selection, or goes on
SelectionMade(selected_packages) ==
    IF SelectionEmpty(selected_packages)
    THEN CycleFails(Event("select_packages_greedy", selected_packages))
    ELSE controller' = [controller EXCEPT
             !.pc = "optimize",
             !.trace = Append(controller.trace,
                              Event("select_packages_greedy", selected_packages)),
             !.selected = selected_packages]

\* main.py:161-168
SelectPackages ==
    /\ controller.pc = "select"
    /\ SelectionMade(select_packages_greedy(graph, packages, controller.current_pos,
                                            MAX_PACKAGES_PER_TRIP))
    /\ UNCHANGED <<serverVars, graphVars, catalogVars, call>>

\* main.py:176
OptimizeRoute ==
    /\ controller.pc = "optimize"
    /\ controller' = [controller EXCEPT
           !.pc = "submit",
           !.trace = Append(controller.trace,
                            Event("optimize_and_evaluate", controller.selected)),
           !.optimization =
               optimize_and_evaluate(graph, PackagesOf(packages, controller.selected),
                                     controller.current_pos)]
    /\ UNCHANGED <<serverVars, graphVars, catalogVars, call>>

\* main.py:185-192: route index 0 is submitted; the server accepts it or not
SubmitRoute ==
    /\ controller.pc = "submit"
    /\ \E accepted \in BOOLEAN :
          IF ~accepted
          THEN CycleFails(Event("set_route_index", <<>>))
          ELSE controller' = [controller EXCEPT
                   !.pc = "wait",
                   !.trace = Append(controller.trace, Event("set_route_index", <<>>))]
    /\ UNCHANGED <<serverVars, graphVars, catalogVars, call>>

StopSeenOrTimeout(poll) == poll # "other"

\* "car_state and car_state.get('state') == 'STOP'" (api_client.py:246)
StopSeen(poll) == poll = "STOP"

\* main.py:195-197 and api_client.py:243-252: one poll of the car state, or
\* the timeout.  A poll that sees the car in STOP ends the wait; any other
\* answer, or none, is followed by the next poll.
WaitForStop ==
    /\ controller.pc = "wait"
    /\ \E poll \in {"STOP", "other", "timeout"} :
          CASE StopSeen(poll) ->
                 controller' = [controller EXCEPT
                     !.pc = "mark",
                     !.trace = Append(controller.trace, Event(poll, <<>>))]
            [] poll = "timeout" -> CycleFails(Event("timeout", <<>>))
            [] OTHER -> UNCHANGED controller
    /\ UNCHANGED <<serverVars, graphVars, catalogVars, call>>

MarkNone(pkgs, selected, i) == pkgs

\* the loop of main.py:200-201
RECURSIVE MarkAll(_, _, _)
MarkAll(pkgs, selected, i) ==
    IF i > Len(selected) THEN pkgs
    ELSE MarkAll(mark_delivered(pkgs, selected[i]), selected, i + 1)

\* main.py:200-211: the selected packages are marked delivered, the
\* statistics are updated and the cycle returns True
MarkSelectedDelivered ==
    /\ controller.pc = "mark"
    /\ packages' = MarkAll(packages, controller.selected, 1)
    /\ marks' = [k \in DOMAIN marks |->
                    IF \A i \in DOMAIN controller.selected : controller.selected[i] # k
                    THEN marks[k]
                    ELSE IF marks[k] = "never" THEN "once" ELSE "again"]
    /\ controller' = [controller EXCEPT
           !.pc = "cycle",
           !.trace = Append(controller.trace,
                            Event("mark_delivered", controller.selected)),
           !.total_packages_delivered =
               controller.total_packages_delivered + Len(controller.selected),
           !.total_distance_traveled =
               controller.total_distance_traveled
               + controller.optimization.total_distance,
           !.total_reward_earned =
               controller.total_reward_earned + controller.optimization.total_reward]
    /\ UNCHANGED <<serverVars, graphVars, loaded, call>>

ControllerNext ==
    \/ GetCurrentPosition \/ GetTokens \/ SelectPackages \/ OptimizeRoute
    \/ SubmitRoute \/ WaitForStop \/ MarkSelectedDelivered

ControllerSpec == ControllerInit /\ [][ControllerNext]_vars

\* the places of the trace where op was called
CallsOf(op) == {i \in DOMAIN controller.trace : controller.trace[i].op = op}

\* C16: within a cycle a route is submitted only after
\* select_packages_greedy returned a non-empty list and
\* optimize_and_evaluate was then called with that list; a selection that
\* returns the empty list is the last call of its cycle, which ends with
\* no route submitted and no delivered flag changed
SubmitAfterSelectAndOptimize ==
    /\ \A s \in CallsOf("set_route_index") :
          \E j \in CallsOf("select_packages_greedy"),
             k \in CallsOf("optimize_and_evaluate") :
              /\ j < k /\ k < s
              /\ controller.trace[j].value # <<>>
              /\ controller.trace[k].value = controller.trace[j].value
              /\ Ids(controller.optimization.optimized_packages)
                   = {controller.trace[j].value[i] : i \in DOMAIN controller.trace[j].value}
    /\ \A j \in CallsOf("select_packages_greedy") :
          controller.trace[j].value = <<>> =>
              /\ j = Len(controller.trace)
              /\ controller.pc = "done"
              /\ CallsOf("set_route_index") = {}
              /\ DeliveredIds(packages) = controller.delivered_before

\* a second cycle selected, optimized and submitted, after a first cycle
\* delivered what it had selected
SubmitAfterSelectWitness ==
    /\ controller.cycle_count = 2
    /\ CallsOf("set_route_index") # {}
    /\ controller.delivered_before # {}
    /\ Len(controller.selected) >= 1

(***************************************************************************)
(* The mock competition server (mock/mock_server.py).                      *)
(*                                                                         *)
(* Flask keeps `session` in a signed cookie the client holds: the server   *)
(* stores nothing of it.  session[c] is the cookie client c sends with its *)
(* next request.  A response sets a cookie; a client either keeps it (a    *)
(* requests.Session, api_client.py:24) or goes on sending the cookie it    *)
(* has (test_mock_server.py passes the cookies of the login response to    *)
(* every later request).  session[c].history is not part of the cookie: it *)
(* tells whether the last of the client's correct logins and logouts was a *)
(* login.                                                                  *)
(*                                                                         *)
(* The development server handles every request in a thread of its own     *)
(* (app.run, mock_server.py:543), so handlers interleave.  A client waits  *)
(* for the answer to its request before it sends the next.  set_index is   *)
(* modelled in two steps, up to the list of available packages             *)
(* (mock_server.py:363-399) and from the sample on (401-429); the other    *)
(* handlers are single steps.  threads lists the set_index handlers in     *)
(* flight and the stop_car threads that have not ended.                    *)
(*                                                                         *)
(* call holds the last answered request: its endpoint, client and status,  *)
(* the cookie sent and the cookie set, the client's history before it, and *)
(* whether the handler changed session_states, the delivered packages or   *)
(* the threads; for an accepted /set_index also the packages it delivered  *)
(* and those that were delivered before.                                   *)
(***************************************************************************)
MaxClients == 2
MaxSessions == 2
MaxServerPackages == 3
MaxThreads == 2
MaxPolls == 1
MaxStops == 4

PASSWORD == "dummy_password"
COMPETITIVE_MODE == TRUE
MIN_STOPS == 4
DELIVERED_PER_ROUTE == 3

Clients == 1..MaxClients
Passwords == {PASSWORD, "wrong"}

\* the ids of PACKAGES (response_packages.json)
PACKAGES == 1..MaxServerPackages

\* session.get('session_id') of a cookie without one
NoSession == 0

\* data.get('index') of a body without one
NoIndex == 0 - 1

Cookie(authenticated, session_id) ==
    [authenticated |-> authenticated, session_id |-> session_id]

EmptyCookie == Cookie(FALSE, NoSession)

\* the cookie client c sends
Sent(c) == Cookie(session[c].authenticated, session[c].session_id)

Depot == <<300, 300>>
Stop1 == <<300, 400>>

\* ROAD_GRAPH: the points in the order of its keys, and their neighbours
RoadPoints == <<Depot, Stop1>>
Neighbors(p) == IF p = Depot THEN <<Stop1>> ELSE IF p = Stop1 THEN <<Depot>> ELSE <<>>

\* mock_server.py:102-108: the point itself, or the first nearest point
WalkStart(start) ==
    IF \E i \in DOMAIN RoadPoints : RoadPoints[i] = start THEN start
    ELSE LET d(i) == euclidean_distance(RoadPoints[i], start)
         IN  RoadPoints[CHOOSE i \in DOMAIN RoadPoints :
                            /\ \A j \in DOMAIN RoadPoints : d(i) <= d(j)
                            /\ \A j \in 1..(i - 1) : d(j) > d(i)]

\* the loop of generate_road_following_waypoints (mock_server.py:115-131):
\* the lists it can end with
RECURSIVE Walks(_, _, _, _)
Walks(waypoints, current, visited, n) ==
    LET neighbors == Neighbors(current)
        unvisited == {i \in DOMAIN neighbors : neighbors[i] \notin visited}
        choices == IF unvisited # {} THEN unvisited ELSE DOMAIN neighbors
    IN  IF n = 0 \/ neighbors = <<>> THEN {waypoints}
        ELSE UNION {Walks(Append(waypoints, neighbors[i]), neighbors[i],
                          visited \cup {neighbors[i]}, n - 1) : i \in choices}

\* generate_road_following_waypoints: the lists it can return
generate_road_following_waypoints(start_point, num_waypoints) ==
    IF RoadPoints = <<>> THEN {<<start_point>>}
    ELSE LET start == WalkStart(start_point)
         IN  Walks(<<start>>, start, {start}, num_waypoints)

\* the record get_session_state creates (mock_server.py:256-264)
NewSessionState ==
    [car_running |-> FALSE, current_route_index |-> 0, delivered_packages |-> {},
     car_position |-> Depot, car_index |-> 0, route_waypoints |-> <<>>,
     waypoint_index |-> 0]

\* the record /reset stores (mock_server.py:438-442)
ResetSessionState ==
    [car_running |-> FALSE, current_route_index |-> 0, delivered_packages |-> {}]

\* the session ids in use: in a cookie, in session_states or in a thread
UsedIds ==
    {session[c].session_id : c \in Clients} \cup DOMAIN session_states
    \cup {threads[i].sid : i \in DOMAIN threads}

\* uuid.uuid4(): an id that is not in use
FreshIds == (1..MaxSessions) \ UsedIds

\* session_states with the record of session_id replaced or added
WithState(states, session_id, state) ==
    [s \in DOMAIN states \cup {session_id} |->
        IF s = session_id THEN state ELSE states[s]]

\* get_session_state for a session id: session_states with its record
StatesWith(session_id) ==
    IF session_id \in DOMAIN session_states THEN session_states
    ELSE WithState(session_states, session_id, NewSessionState)

\* the ids get_session_state can give the cookie client c sends
IdsFor(c) ==
    IF session[c].session_id = NoSession THEN FreshIds ELSE {session[c].session_id}

\* client c has no request in flight
Idle(c) ==
    \A i \in DOMAIN threads : ~(threads[i].target = "set_index" /\ threads[i].client = c)

\* the cookie client c holds after a response that sets cookie
Kept(c, cookie, kept, history) ==
    [session EXCEPT ![c] =
        [authenticated |-> IF kept THEN cookie.authenticated
                                   ELSE session[c].authenticated,
         session_id |-> IF kept THEN cookie.session_id ELSE session[c].session_id,
         history |-> history]]

\* the answer to a request of client c
Answer(op, c, status, cookie, changed) ==
    [op |-> op, client |-> c, status |-> status, sent |-> Sent(c),
     history |-> session[c].history, cookie |-> cookie, changed |-> changed]

serverState == <<session_states, globally_delivered_packages, threads>>

MockInit ==
    /\ nodes = EmptyGraph.nodes
    /\ edges = EmptyGraph.edges
    /\ packages = <<>>
    /\ loaded = <<>>
    /\ marks = <<>>
    /\ controller = NoController
    /\ call = [op |-> "app.run"]
    /\ session = [c \in Clients |->
                     [authenticated |-> FALSE, session_id |-> NoSession,
                      history |-> "none"]]
    /\ session_states = <<>>
    /\ globally_delivered_packages = {}
    /\ threads = <<>>

\* "if password == PASSWORD" (mock_server.py:232)
PasswordAccepted(password) == password = PASSWORD

\* /login
Login(c) ==
    /\ Idle(c)
    /\ \E method \in {"GET", "POST"}, password \in Passwords, kept \in BOOLEAN :
          IF method = "GET"
          THEN /\ call' = Answer("login", c, 200, Sent(c), FALSE)
                            @@ [password |-> "none"]
               /\ UNCHANGED session
          ELSE IF PasswordAccepted(password)
          THEN LET cookie == Cookie(TRUE, session[c].session_id)
               IN  /\ call' = Answer("login", c, 200, cookie, FALSE)
                                @@ [password |-> password]
                   /\ session' = Kept(c, cookie, kept, "login")
          ELSE /\ call' = Answer("login", c, 401, Sent(c), FALSE)
                            @@ [password |-> password]
               /\ UNCHANGED session
    /\ UNCHANGED <<serverState, controller, graphVars, catalogVars>>

\* /logout
Logout(c) ==
    /\ Idle(c)
    /\ \E kept \in BOOLEAN :
          /\ call' = Answer("logout", c, 200, EmptyCookie, FALSE)
          /\ session' = Kept(c, EmptyCookie, kept, "logout")
    /\ UNCHANGED <<serverState, controller, graphVars, catalogVars>>

\* "session.get('authenticated')" (mock_server.py:272)
Authenticated(cookie) == cookie.authenticated

\* the answer of require_auth to a cookie that is not authenticated
\* (mock_server.py:272-273)
Unauthorized(op, c) ==
    /\ call' = Answer(op, c, 401, Sent(c), FALSE)
    /\ UNCHANGED <<session, serverState>>

\* /road_information
RoadInformation(c) ==
    /\ Idle(c)
    /\ IF ~Authenticated(Sent(c)) THEN Unauthorized("road_information", c)
       ELSE /\ call' = Answer("road_information", c, 200, Sent(c), FALSE)
            /\ UNCHANGED <<session, serverState>>
    /\ UNCHANGED <<controller, graphVars, catalogVars>>

\* /packages
Packages(c) ==
    /\ Idle(c)
    /\ IF ~Authenticated(Sent(c)) THEN Unauthorized("packages", c)
       ELSE \E session_id \in IdsFor(c), kept \in BOOLEAN :
               LET cookie == Cookie(TRUE, session_id)
                   states == StatesWith(session_id)
                   available ==
                       IF COMPETITIVE_MODE
                       THEN PACKAGES \ globally_delivered_packages
                       ELSE PACKAGES \ states[session_id].delivered_packages
               IN  /\ session_states' = states
                   /\ call' = Answer("packages", c, 200, cookie,
                                     states # session_states)
                                @@ [available |-> available]
                   /\ session' = Kept(c, cookie, kept, session[c].history)
                   /\ UNCHANGED <<globally_delivered_packages, threads>>
    /\ UNCHANGED <<controller, graphVars, catalogVars>>

\* the record of a running car after one more /car (mock_server.py:321-340)
CarPolled(state) ==
    LET waypoints == state.route_waypoints
        waypoint_idx == state.waypoint_index
        moved == /\ waypoints # <<>>
                 /\ waypoint_idx < Len(waypoints)
                 /\ state.current_route_index % 8 = 0
                 /\ waypoint_idx < Len(waypoints) - 1
    IN  [state EXCEPT
            !.waypoint_index = IF moved THEN waypoint_idx + 1 ELSE @,
            !.car_position = IF moved THEN waypoints[waypoint_idx + 2] ELSE @,
            !.current_route_index = @ + 1]

\* /car
Car(c) ==
    /\ Idle(c)
    /\ IF ~Authenticated(Sent(c)) THEN Unauthorized("car", c)
       ELSE \E session_id \in IdsFor(c), kept \in BOOLEAN,
               moving \in {"MOVE_FORWARD", "TURN", "BLOCKED"} :
               LET cookie == Cookie(TRUE, session_id)
                   states == StatesWith(session_id)
                   state == states[session_id]
                   polled == IF "car_position" \in DOMAIN state /\ state.car_running
                             THEN WithState(states, session_id, CarPolled(state))
                             ELSE states
               IN  /\ state.car_running => state.current_route_index < MaxPolls
                   /\ session_states' = polled
                   /\ call' = Answer("car", c,
                                     IF "car_position" \in DOMAIN state THEN 200
                                                                        ELSE 500,
                                     cookie, polled # session_states)
                                @@ [session_id |-> session_id,
                                    car_running |-> state.car_running,
                                    route |-> "route_waypoints" \in DOMAIN state,
                                    state |-> IF "car_position" \notin DOMAIN state
                                              THEN "none"
                                              ELSE IF state.car_running THEN moving
                                              ELSE "STOP"]
                   /\ session' = Kept(c, cookie, kept, session[c].history)
                   /\ UNCHANGED <<globally_delivered_packages, threads>>
    /\ UNCHANGED <<controller, graphVars, catalogVars>>

\* /get_tokens
GetTokensRequest(c) ==
    /\ Idle(c)
    /\ IF ~Authenticated(Sent(c)) THEN Unauthorized("get_tokens", c)
       ELSE \E session_id \in IdsFor(c), kept \in BOOLEAN :
               LET cookie == Cookie(TRUE, session_id)
                   states == StatesWith(session_id)
               IN  /\ session_states' = states
                   /\ call' = Answer("get_tokens", c, 200, cookie,
                                     states # session_states)
                                @@ [tokens |-> ~states[session_id].car_running]
                   /\ session' = Kept(c, cookie, kept, session[c].history)
                   /\ UNCHANGED <<globally_delivered_packages, threads>>
    /\ UNCHANGED <<controller, graphVars, catalogVars>>

\* a thread of the server: a set_index handler of a client between its two
\* steps, with the available packages it has listed and whether the record
\* it holds is still the one in session_states; or a stop_car thread, at
\* its start or asleep
Thread(target, c, sid, pc, available, orphan) ==
    [target |-> target, client |-> c, sid |-> sid, pc |-> pc,
     available |-> available, orphan |-> orphan]

\* /set_index up to the list of available packages (mock_server.py:363-399)
SetIndexBegin(c) ==
    /\ Idle(c)
    /\ IF ~Authenticated(Sent(c)) THEN Unauthorized("set_index", c)
       ELSE \E session_id \in IdsFor(c), kept \in BOOLEAN,
               index \in {0, NoIndex}, num_waypoints \in MIN_STOPS..MaxStops :
               LET cookie == Cookie(TRUE, session_id)
                   states == StatesWith(session_id)
                   state == states[session_id]
                   started == [state EXCEPT !.current_route_index = index,
                                            !.car_running = TRUE]
               IN  /\ session' = Kept(c, cookie, kept, session[c].history)
                   /\ UNCHANGED globally_delivered_packages
                   /\ IF index = NoIndex
                      THEN /\ session_states' = states
                           /\ call' = Answer("set_index", c, 400, cookie,
                                             states # session_states)
                           /\ UNCHANGED threads
                      ELSE IF "car_position" \notin DOMAIN state
                      THEN /\ session_states' = WithState(states, session_id, started)
                           /\ call' = Answer("set_index", c, 500, cookie,
                                             session_states' # session_states)
                           /\ UNCHANGED threads
                      ELSE /\ Len(threads) < MaxThreads
                           /\ \E waypoints \in generate_road_following_waypoints(
                                                   state.car_position, num_waypoints) :
                                 session_states' =
                                     WithState(states, session_id,
                                         [started EXCEPT !.route_waypoints = waypoints,
                                                         !.waypoint_index = 0])
                           /\ threads' = Append(threads,
                                  Thread("set_index", c, session_id, "deliver",
                                         IF COMPETITIVE_MODE
                                         THEN PACKAGES \ globally_delivered_packages
                                         ELSE PACKAGES \ state.delivered_packages,
                                         FALSE))
                           /\ UNCHANGED call
    /\ UNCHANGED <<controller, graphVars, catalogVars>>

\* random.sample(available, min(3, len(available))): the samples
Samples(available) ==
    {to_deliver \in SUBSET available :
        Cardinality(to_deliver)
          = IF Cardinality(available) < DELIVERED_PER_ROUTE
            THEN Cardinality(available) ELSE DELIVERED_PER_ROUTE}

\* /set_index from the sample on (mock_server.py:401-429): the packages are
\* delivered, the stop_car thread is started and the request is answered
SetIndexDeliver(i) ==
    /\ threads[i].target = "set_index"
    /\ \E to_deliver \in Samples(threads[i].available) :
          LET sid == threads[i].sid
              state == session_states[sid]
          IN  /\ session_states' =
                     IF threads[i].orphan THEN session_states
                     ELSE WithState(session_states, sid,
                              [state EXCEPT !.delivered_packages = @ \cup to_deliver])
              /\ globally_delivered_packages' =
                     IF COMPETITIVE_MODE
                     THEN globally_delivered_packages \cup to_deliver
                     ELSE globally_delivered_packages
              /\ threads' = [threads EXCEPT ![i] =
                                Thread("stop_car", threads[i].client, sid, "start",
                                       {}, FALSE)]
              /\ call' = Answer("set_index", threads[i].client, 200,
                                Sent(threads[i].client), TRUE)
                           @@ [session_id |-> sid, to_deliver |-> to_deliver,
                               delivered_before |-> globally_delivered_packages]
    /\ UNCHANGED <<session, controller, graphVars, catalogVars>>

\* stop_car up to its sleep (mock_server.py:419-422): the record of the
\* session is read, which fails once the session is gone
StopCarStart(i) ==
    /\ threads[i].target = "stop_car"
    /\ threads[i].pc = "start"
    /\ threads' = IF threads[i].sid \in DOMAIN session_states
                  THEN [threads EXCEPT ![i].pc = "sleep"]
                  ELSE WithoutIndex(threads, i)
    /\ UNCHANGED <<session, session_states, globally_delivered_packages, call,
                   controller, graphVars, catalogVars>>

\* what stop_car leaves of the record of its session (mock_server.py:424)
StoppedNot(state) == state

Stopped(state) == [state EXCEPT !.car_running = FALSE]

\* stop_car after its sleep (mock_server.py:423-425)
StopCarWake(i) ==
    /\ threads[i].target = "stop_car"
    /\ threads[i].pc = "sleep"
    /\ session_states' =
           IF threads[i].sid \in DOMAIN session_states
           THEN WithState(session_states, threads[i].sid,
                          Stopped(session_states[threads[i].sid]))
           ELSE session_states
    /\ threads' = WithoutIndex(threads, i)
    /\ UNCHANGED <<session, globally_delivered_packages, call,
                   controller, graphVars, catalogVars>>

\* /reset
Reset(c) ==
    /\ Idle(c)
    /\ LET session_id == session[c].session_id
       IN  /\ session_states' =
                  IF session_id # NoSession /\ session_id \in DOMAIN session_states
                  THEN WithState(session_states, session_id, ResetSessionState)
                  ELSE session_states
           /\ call' = Answer("reset", c, 200, Sent(c), session_states' # session_states)
    /\ UNCHANGED <<session, globally_delivered_packages, threads,
                   controller, graphVars, catalogVars>>

\* /reset_all: the records are dropped, so a set_index handler in flight
\* holds a record that is no longer in session_states
ResetAll(c) ==
    /\ Idle(c)
    /\ session_states' = <<>>
    /\ globally_delivered_packages' = {}
    /\ threads' = [i \in DOMAIN threads |->
                      IF threads[i].target = "set_index"
                      THEN [threads[i] EXCEPT !.orphan = TRUE] ELSE threads[i]]
    /\ call' = Answer("reset_all", c, 200, Sent(c),
                      <<session_states', globally_delivered_packages', threads'>>
                        # serverState)
    /\ UNCHANGED <<session, controller, graphVars, catalogVars>>

\* the requests of client c
Requests(c) ==
    \/ Login(c) \/ Logout(c) \/ RoadInformation(c) \/ Packages(c)
    \/ Car(c) \/ GetTokensRequest(c) \/ SetIndexBegin(c)
    \/ Reset(c) \/ ResetAll(c)

\* the steps of the server's threads
ThreadSteps ==
    \E i \in DOMAIN threads :
        SetIndexDeliver(i) \/ StopCarStart(i) \/ StopCarWake(i)

\* the server with one client
SessionNext == Requests(1) \/ ThreadSteps

SessionSpec == MockInit /\ [][SessionNext]_vars

Protected == {"road_information", "packages", "car", "get_tokens", "set_index"}

\* C17 (as stated): a request to a protected endpoint by a client whose
\* last correct login or logout was not a login is answered 401 and
\* changes no server state, and a login with a wrong password is answered
\* 401 and sets no authenticated cookie
ProtectedRequiresLogin ==
    /\ (call.op \in Protected /\ call.history # "login")
          => (call.status = 401 /\ ~call.changed)
    /\ (call.op = "login" /\ call.password = "wrong")
          => (call.status = 401 /\ call.cookie = call.sent)

\* the server in competition: the clients log in, ask for the packages and
\* submit routes, and the server is reset
CompetitionNext ==
    \/ \E c \in Clients :
          Login(c) \/ Packages(c) \/ SetIndexBegin(c) \/ Reset(c) \/ ResetAll(c)
    \/ ThreadSteps

CompetitionSpec == MockInit /\ [][CompetitionNext]_vars

\* C18 (as stated): in competitive mode the delivered_packages sets of
\* distinct sessions are pairwise disjoint, and /set_index delivers no
\* package that is in globally_delivered_packages already
DeliveredToOneSession ==
    COMPETITIVE_MODE =>
        /\ \A s, t \in DOMAIN session_states :
              s # t => session_states[s].delivered_packages
                         \cap session_states[t].delivered_packages = {}
        /\ (call.op = "set_index" /\ call.status = 200)
              => call.to_deliver \cap call.delivered_before = {}

\* the steps of the threads that work for session s
ThreadsOf(s) ==
    \E i \in DOMAIN threads :
        /\ threads[i].sid = s
        /\ SetIndexDeliver(i) \/ StopCarStart(i) \/ StopCarWake(i)

\* the server with one client, where every thread that can take a step
\* takes it in the end: a handler goes on to its answer, a stop_car thread
\* starts and its sleep ends
SessionFairSpec ==
    /\ MockInit
    /\ [][SessionNext]_vars
    /\ \A s \in 1..MaxSessions : WF_vars(ThreadsOf(s))

\* the car of session s is running
Running(s) == s \in DOMAIN session_states /\ session_states[s].car_running

\* /set_index of session s has just been accepted
Accepted(s) == call.op = "set_index" /\ call.status = 200 /\ call.session_id = s

LegPoints(from_pos, to_pos) ==
    LET result == find_path(graph, from_pos, to_pos, TRUE)
    IN  IF result # None THEN result[1] ELSE <<from_pos, to_pos>>

\* the legs of a route joined, the first point of every leg but the first
\* left out
JoinedLegs(pkgs, start_pos) ==
    LET from(i) == IF i = 1 THEN start_pos ELSE pkgs[i - 1].dropoff_pos
        joined[i \in 0..Len(pkgs)] ==
            IF i = 0 THEN <<start_pos>>
            ELSE joined[i - 1]
                 \o Tail(LegPoints(from(i), pkgs[i].pickup_pos))
                 \o Tail(LegPoints(pkgs[i].pickup_pos, pkgs[i].dropoff_pos))
    IN  joined[Len(pkgs)]

\* the points stops appear in path in this order, from index k on
RECURSIVE VisitsInOrder(_, _, _)
VisitsInOrder(path, stops, k) ==
    \/ stops = <<>>
    \/ \E i \in k..Len(path) :
          path[i] = stops[1] /\ VisitsInOrder(path, Tail(stops), i)

\* C20 (as stated): the path build_full_path returns for a list of packages
\* starts at the start position, is the legs in order joined at their
\* junction points, and so visits every pickup and every dropoff in
\* delivery order
FullPathJoinsLegs ==
    (call.op = "build_full_path" /\ call.packages # <<>>) =>
        LET path == call.result[1]
        IN  /\ path # <<>>
            /\ path[1] = call.start_pos
            /\ path = JoinedLegs(call.packages, call.start_pos)
            /\ VisitsInOrder(path, Tail(generate_waypoints(call.packages,
                                                           call.start_pos)), 1)

\* the distance of one leg when the fallback is applied to that leg alone:
\* the find_path distance, or the straight line when there is no path
LegCharge(from_pos, to_pos) ==
    LET result == find_path(graph, from_pos, to_pos, TRUE)
    IN  IF result # None THEN result[2] ELSE euclidean_distance(from_pos, to_pos)

\* C21 (as stated): calculate_package_profit of an eligible package charges
\* each leg on its own, the path distance of a leg that has a path and the
\* straight line of a leg that has none
ProfitFallbackPerLeg ==
    call.op = "calculate_package_profit" =>
        LET package == packages[call.package]
        IN  ~Ineligible(package) =>
               call.profit1
                 = package.reward * REWARD_WEIGHT
                   - (LegCharge(call.pos1, package.pickup_pos)
                      + LegCharge(package.pickup_pos, package.dropoff_pos))
                     * DISTANCE_WEIGHT

\* C22 (as stated): in a graph built by build_from_road_data the weight of
\* every stored edge is non-negative and is the Euclidean distance between
\* the points of the two nodes it joins
EdgeWeightIsNodeDistance ==
    call.op = "build_from_road_data" =>
        \A u \in NodeIds(graph) : \A e \in EdgesOf(graph, u) :
            /\ e[2] >= 0
            /\ e[2] = euclidean_distance(nodes[u], nodes[e[1]])

(***************************************************************************)
(* A Graph object built twice: build_from_road_data is a method of the     *)
(* object made at main.py:32, and initialize (main.py:74) calls it on that *)
(* object each time it runs.                                               *)
(***************************************************************************)
\* graph.build_from_road_data(road_data) on the graph already built
Rebuild ==
    /\ call.op = "build_from_road_data"
    /\ \E road_data \in RoadData :
          LET g == build_from_road_data(graph, road_data)
          IN  /\ nodes' = g.nodes
              /\ edges' = g.edges
              /\ call' = [op |-> "rebuild", road_data |-> road_data]
    /\ UNCHANGED <<controller, serverVars, catalogVars>>

RebuildNext == BuildGraph \/ Rebuild

RebuildSpec == Init /\ [][RebuildNext]_vars

\* C23 (as stated): after a second build_from_road_data on the same object
\* the nodes and edges are those of a new Graph built from the second
\* snapshot alone
RebuildIsFresh ==
    call.op = "rebuild" =>
        graph = build_from_road_data(EmptyGraph, call.road_data)

\* the centroid of the pickups of the first n packages of a list of ids, as
\* package_selector.py:217-219 computes it
CentroidOf(ids, n) ==
    <<SumPickup(packages, SubSeq(ids, 1, n), 1, 1) \div n,
      SumPickup(packages, SubSeq(ids, 1, n), 1, 2) \div n>>

\* id is an eligible package other than those of before, none of which is
\* nearer to point by its pickup
NearestEligible(id, before, point) ==
    LET others == {k \in 1..Len(packages) :
                      /\ ~Ineligible(packages[k])
                      /\ \A i \in 1..Len(before) : before[i] # packages[k].id}
    IN  \E k \in others :
           /\ packages[k].id = id
           /\ \A j \in others :
                 euclidean_distance(point, packages[k].pickup_pos)
                   <= euclidean_distance(point, packages[j].pickup_pos)

\* select_packages_by_density returns the clustered group: there are
\* eligible packages and the profits of the group sum to more than 0
\* (package_selector.py:204, 238-240)
ClusterReturned(current_pos, max_packages) ==
    LET eligible(pkg) == ~Ineligible(pkg)
        available == SelectSeq(packages, eligible)
    IN  /\ available # <<>>
        /\ SumProfit(graph, packages,
                     DensityLoop(available,
                         <<NearestPickup(available, 1..Len(available), current_pos).id>>,
                         max_packages - 1),
                     current_pos, 1) > 0

\* C24 (as stated): select_packages_by_density returns at most max_packages
\* packages; when it returns the clustered group, the group starts with the
\* eligible package of nearest pickup and goes on, each time, with the
\* unselected eligible package nearest to the centroid of those before it
DensityWithinCap ==
    call.op = "select_packages_by_density" =>
        /\ Len(call.result) <= call.max_packages
        /\ ClusterReturned(call.current_pos, call.max_packages)
           => /\ NearestEligible(call.result[1], <<>>, call.current_pos)
              /\ \A i \in 2..Len(call.result) :
                    NearestEligible(call.result[i], SubSeq(call.result, 1, i - 1),
                                    CentroidOf(call.result, i - 1))

\* the counters a cycle updates (main.py:204-206)
Counters ==
    <<controller.total_packages_delivered, controller.total_distance_traveled,
      controller.total_reward_earned>>

\* the cycle in progress submitted its route, was answered with success,
\* and then saw the car in STOP: the last call of the trace
StopConfirmed ==
    LET n == Len(controller.trace)
    IN  /\ n >= 2
        /\ controller.trace[n].op = "STOP"
        /\ controller.trace[n - 1].op = "set_route_index"

\* C25: in the decision loop a delivered flag or a counter of the
\* controller changes only in the step that calls mark_delivered for the
\* packages the cycle selected, which is taken only after the submission of
\* the route succeeded and the car was then seen in STOP; a cycle that ends
\* on a failed submission or on a timeout of the wait changes neither
DeliveredOnlyAfterStop ==
    [][/\ (packages' # packages \/ Counters' # Counters) =>
            /\ StopConfirmed
            /\ DeliveredIds(packages')
                 = DeliveredIds(packages)
                   \cup {controller.selected[i] : i \in DOMAIN controller.selected}
            /\ \A k \in DOMAIN packages :
                  packages'[k] = [packages[k] EXCEPT !.delivered = packages'[k].delivered]
       /\ (/\ controller'.pc = "done"
           /\ controller'.trace # <<>>
           /\ controller'.trace[Len(controller'.trace)].op
                \in {"set_route_index", "timeout"}) =>
            /\ DeliveredIds(packages') = controller'.delivered_before
            /\ Counters' = Counters]_vars

\* a cycle delivered its packages after a STOP, and the next cycle ended on
\* a timeout of the wait with the catalog as that cycle found it
DeliveredAfterStopWitness ==
    /\ controller.pc = "done"
    /\ controller.cycle_count = 2
    /\ controller.trace[Len(controller.trace)].op = "timeout"
    /\ controller.delivered_before # {}
    /\ DeliveredIds(packages) = controller.delivered_before
    /\ controller.total_packages_delivered = Cardinality(controller.delivered_before)

\* C26: for the same package list and start position the distance
\* build_full_path returns is the distance _calculate_route_distance
\* computes, and for the list optimize_and_evaluate orders it is the
\* total_distance that optimize_and_evaluate reports, also when legs
\* without a graph path are measured in a straight line
FullPathDistanceIsRouteDistance ==
    call.op = "build_full_path" =>
        /\ call.result[2]
             = calculate_route_distance(graph, call.packages, call.start_pos)
        /\ build_full_path(graph,
               optimize_and_evaluate(graph, call.packages,
                                     call.start_pos).optimized_packages,
               call.start_pos)[2]
             = optimize_and_evaluate(graph, call.packages, call.start_pos).total_distance

\* a route of two packages or more with a leg that has a graph path and a
\* leg that has none
FullPathDistanceWitness ==
    /\ call.op = "build_full_path"
    /\ Len(call.packages) >= 2
    /\ call.result[2] > 0
    /\ \E i \in DOMAIN call.packages :
          find_path(graph, call.packages[i].pickup_pos,
                    call.packages[i].dropoff_pos, TRUE) = None
    /\ \E i \in DOMAIN call.packages :
          /\ find_path(graph, call.packages[i].pickup_pos,
                       call.packages[i].dropoff_pos, TRUE) # None
          /\ call.packages[i].pickup_pos # call.packages[i].dropoff_pos

(***************************************************************************)
(* run() to its end.  Every external call returns, and the wait for the    *)
(* stop is a loop bounded by its timeout (api_client.py:243), so the       *)
(* single thread of run() takes the step it is at: weak fairness of each   *)
(* step of the controller (the poll that changes nothing is no step).      *)
(* SelectPackages and OptimizeRoute are possible exactly when the          *)
(* controller is at "select" and at "optimize"; their weak fairness is     *)
(* written out with these state predicates for ENABLED.                    *)
(***************************************************************************)
ControllerFairSpec ==
    /\ ControllerInit /\ [][ControllerNext]_vars
    /\ WF_vars(GetCurrentPosition) /\ WF_vars(GetTokens)
    /\ WF_vars(SubmitRoute) /\ WF_vars(WaitForStop)
    /\ WF_vars(MarkSelectedDelivered)
    /\ ([]<>(controller.pc # "select") \/ []<><<SelectPackages>>_vars)
    /\ ([]<>(controller.pc # "optimize") \/ []<><<OptimizeRoute>>_vars)

\* the cycles that have returned True
SuccessfulCycles ==
    IF controller.pc = "cycle" THEN controller.cycle_count
    ELSE controller.cycle_count - 1

\* C27: run() terminates when every external call returns: a cycle that
\* returns True leaves fewer packages undelivered than it found, the cycles
\* that returned True are never more than the packages loaded, and the loop
\* is left, for good, at the first cycle that returns False
RunTerminates ==
    /\ [][controller.pc = "mark" =>
             get_undelivered_count(packages') < get_undelivered_count(packages)]_vars
    /\ [](SuccessfulCycles <= Len(packages))
    /\ [][controller'.pc = "done" => SuccessfulCycles' = SuccessfulCycles]_vars
    /\ <>[](controller.pc = "done")

\* the loop was left in its third cycle, after two that returned True, with
\* nothing left to deliver
RunTerminatesWitness ==
    /\ controller.pc = "done"
    /\ controller.cycle_count = 3
    /\ get_undelivered_count(packages) = 0

\* C28: when a cycle has ended, total_packages_delivered is the number of
\* packages of the catalog that are delivered, total_reward_earned is
\* get_total_reward_earned(), and no package has been marked, and so
\* counted, in two cycles
CountersAgreeWithCatalog ==
    controller.pc \in {"cycle", "done"} =>
        /\ controller.total_packages_delivered = Cardinality(DeliveredIds(packages))
        /\ controller.total_reward_earned = get_total_reward_earned(packages)
        /\ \A k \in DOMAIN marks : marks[k] # "again"

\* two cycles have ended, each with a delivery that earned a reward
CountersAgreeWitness ==
    /\ controller.pc = "cycle"
    /\ controller.cycle_count = 2
    /\ controller.total_packages_delivered = 2
    /\ controller.total_reward_earned > controller.optimization.total_reward
    /\ controller.optimization.total_reward > 0

\* C29 (as stated): a stop_car thread that sets the car_running of its
\* session to False is the thread of the session's last accepted
\* /set_index: no stop_car thread started by a later /set_index of the
\* session is still to run
OnlyLastTimerStops ==
    [][\A i \in DOMAIN threads :
          (/\ StopCarWake(i)
           /\ Running(threads[i].sid)
           /\ ~session_states'[threads[i].sid].car_running)
          => \A j \in DOMAIN threads :
                ~(/\ j > i
                  /\ threads[j].target = "stop_car"
                  /\ threads[j].sid = threads[i].sid)]_vars

\* the fields of a session record that /car and /set_index read
RecordFields ==
    {"car_running", "current_route_index", "delivered_packages",
     "car_position", "route_waypoints", "waypoint_index"}

\* C30 (as stated): every record of session_states holds all the fields
\* /car and /set_index read, and no authenticated /car or /set_index
\* request fails on a missing field (an answer with status 500)
RecordsComplete ==
    /\ \A s \in DOMAIN session_states :
          RecordFields \subseteq DOMAIN session_states[s]
    /\ call.op \in {"car", "set_index"} => call.status # 500

====
